---------------------------- MODULE Spec2Model ----------------------------
(***************************************************************************)
(* A model of the pseudo-Java to Java translator (javax/bin/modules) and   *)
(* of its entry point (javax/bin/javax_parser.py), and of the handlers of   *)
(* the version-control front end (javax/bin/git_gui.py).                   *)
(*                                                                         *)
(* Text.  A source line is a record [ind, w]: ind is the number of leading *)
(* blanks and w the stripped line cut into tokens.  Tokens are the words   *)
(* of the line (separated by blanks in the source) and the punctuation     *)
(* marks ":" "/" "(" ")" "," which are written without blanks around       *)
(* them.  A blank line has w = <<>>.  Generated Java text is a sequence of *)
(* lexemes in the same way.  Python's substring tests are modelled on      *)
(* tokens: ' as ' in s is "some interior token of s is the word as",       *)
(* s.startswith('if ') is "the first token is if and a word follows".      *)
(***************************************************************************)
EXTENDS Integers, Sequences, FiniteSets, TLC

VARIABLES
    mode,       \* which component this behaviour exercises
    lines,      \* the input: a sequence of source lines
    pb,         \* the frame of StatementParser.parse_method_body
    stmt,       \* convert_statement_to_java: the statement and its result
    vin,        \* parse_variable: the declaration line and its result
    prog,       \* parse_program + generate: cursor, templates, output
    acc,        \* _generate_getter_setter: the variable and the lines
    app,        \* the entry point main(): position, effects, exit status
    gui         \* the version-control front end (javax/bin/git_gui.py)

vars == <<mode, lines, pb, stmt, vin, prog, acc, app, gui>>

-----------------------------------------------------------------------------
(* Sequences of tokens *)

Glue == {":", "/", "(", ")", ","}

Last(s) == s[Len(s)]

Drop(s, n) == SubSeq(s, n + 1, Len(s))

Take(s, n) == SubSeq(s, 1, n)

\* the least index k in lo..hi with s[k] = t, or 0
RECURSIVE FirstAt(_, _, _, _)
FirstAt(s, t, lo, hi) ==
    IF lo > hi THEN 0
    ELSE IF s[lo] = t THEN lo
    ELSE FirstAt(s, t, lo + 1, hi)

\* ' t ' in s: the word t strictly inside the stripped text s
Interior(s, t) == FirstAt(s, t, 2, Len(s) - 1)

HasInterior(s, t) == Interior(s, t) # 0

Has(s, t) == FirstAt(s, t, 1, Len(s)) # 0

\* s.startswith(kw + ' ')
StartsWithWord(s, kw) == Len(s) >= 2 /\ s[1] = kw /\ s[2] \notin Glue

RECURSIVE Count(_, _)
Count(s, t) ==
    IF s = <<>> THEN 0
    ELSE (IF Head(s) = t THEN 1 ELSE 0) + Count(Tail(s), t)

RECURSIVE Flatten(_)
Flatten(ss) == IF ss = <<>> THEN <<>> ELSE Head(ss) \o Flatten(Tail(ss))

\* s.rstrip(':')
RECURSIVE rstrip_colon(_)
rstrip_colon(s) ==
    IF s # <<>> /\ Last(s) = ":" THEN rstrip_colon(Take(s, Len(s) - 1)) ELSE s

-----------------------------------------------------------------------------
(* utils/exceptions.py: the error kinds and their parents *)

ErrorParent ==
    [PseudoJavaError |-> "Exception", ParseError |-> "PseudoJavaError",
     SyntaxError |-> "ParseError", TypeMismatchError |-> "ParseError",
     VariableError |-> "ParseError", MethodError |-> "ParseError",
     TemplateError |-> "ParseError", FileError |-> "PseudoJavaError",
     CompilationError |-> "PseudoJavaError", RuntimeError |-> "PseudoJavaError",
     IndexError |-> "Exception", Exception |-> "BaseException"]

\* isinstance(e, k) for an error e of kind `kind`
RECURSIVE IsA(_, _)
IsA(kind, k) ==
    \/ kind = k
    \/ kind \in DOMAIN ErrorParent /\ IsA(ErrorParent[kind], k)

Ok(x) == [ok |-> TRUE, val |-> x, err |-> "none"]

Raise(kind) == [ok |-> FALSE, val |-> <<>>, err |-> kind]

-----------------------------------------------------------------------------
(* config/synonyms.py *)

template_synonyms == <<"template", "blueprint", "design", "class">>

abstract_synonyms == <<"abstract", "contract", "basic", "base", "must-do">>

inheritance_synonyms == <<"extends", "inherits", "is-a">>

implementation_synonyms == <<"implements", "can", "can-do", "capable">>

abstract_methods_synonyms == {<<"abstract", "methods">>, <<"must-do", "methods">>}

object_creation_verbs == <<"create", "make", "spawn", "build", "initialize">>

Range(s) == {s[k] : k \in 1..Len(s)}

get_static_vars_patterns(template_keyword) ==
    {<<template_keyword, "vars">>, <<"template", "vars">>,
     <<"static", "vars">>, <<"class", "vars">>}

get_static_methods_patterns(template_keyword) ==
    {<<template_keyword, "methods">>, <<"template", "methods">>,
     <<"static", "methods">>, <<"class", "methods">>}

get_getter_setter_patterns ==
    {<<"getters", "setters">>, <<"getters", "and", "setters">>,
     <<"getters", ",", "setters">>, <<"setters", "and", "getters">>}

-----------------------------------------------------------------------------
(* core/data_structures.py: TypeMapping *)

\* str.lower() on the tokens of the model's vocabulary that hold capitals
LowerTab ==
    [List |-> "list", Int |-> "int", ArrayList |-> "arraylist",
     Map |-> "map", String |-> "string", Template |-> "template",
     Design |-> "design", Class |-> "class", Blueprint |-> "blueprint"]

lower(t) == IF t \in DOMAIN LowerTab THEN LowerTab[t] ELSE t

type_mapping ==
    [string |-> "String", int |-> "int", byte |-> "byte", short |-> "short",
     long |-> "long", float |-> "float", double |-> "double",
     boolean |-> "boolean", char |-> "char", arraylist |-> "ArrayList",
     list |-> "List", map |-> "Map", hashmap |-> "HashMap", set |-> "Set",
     hashset |-> "HashSet"]

\* a type is a token sequence; only a single token can be a key of the table
map_type(ty) ==
    IF Len(ty) = 1 /\ lower(ty[1]) \in DOMAIN type_mapping
    THEN <<type_mapping[lower(ty[1])]>>
    ELSE ty

primitives == {"int", "byte", "short", "long", "float", "double", "boolean", "char"}

is_primitive_type(ty) == Len(ty) = 1 /\ lower(ty[1]) \in primitives

wrapper_mapping ==
    [int |-> "Integer", double |-> "Double", float |-> "Float",
     boolean |-> "Boolean", byte |-> "Byte", short |-> "Short",
     long |-> "Long", char |-> "Character"]

get_wrapper_type(ty) ==
    IF Len(ty) = 1 /\ lower(ty[1]) \in DOMAIN wrapper_mapping
    THEN <<wrapper_mapping[lower(ty[1])]>>
    ELSE ty

-----------------------------------------------------------------------------
(* parsers/statement_parser.py: one statement.                              *)
(* The vocabulary of body statements: a quoted literal, an interpolation    *)
(* segment {x}, and the operator tokens; every other token is a word.       *)
(* f-strings, format specifications inside {..}, and the collection phrases *)
(* other than `add .. to ..` and `clear ..` are outside the vocabulary.     *)

QuotedWords == {"\"hi\""}

InterpVar == [i \in {"{x}"} |-> "x"]

InterpWords == DOMAIN InterpVar

Escaped == [q \in QuotedWords |-> "\\\"hi\\\""]

CmpOps == {"==", "!=", "<=", ">="}

\* tokens that hold the character '='
EqToks == CmpOps \cup {"="}

NonWord ==
    Glue \cup EqToks \cup QuotedWords \cup InterpWords
         \cup {">", "<", "//", "#", "\"\"\"", "{", "}", ";", "*", "-", "+",
                 "->", "."}

\* the token begins with a character of \w
WordTok(t) == t \notin NonWord

\* re.match(r'^[a-zA-Z_][a-zA-Z0-9_]*$', t)
IsIdent(t) == WordTok(t)

HasEq(s) == \E k \in 1..Len(s) : s[k] \in EqToks

HasCmp(s) == \E k \in 1..Len(s) : s[k] \in CmpOps

\* '=' in s and not any(op in s for op in ['==', '!=', '<=', '>='])
BareEq(s) == HasEq(s) /\ ~HasCmp(s)

\* re.match(r'add\s+.+\s+to\s+\w+', s.lower()): the index of the first `to`
\* that has an item before it and a word after it, or 0
RECURSIVE AddToAt(_, _)
AddToAt(s, k) ==
    IF k > Len(s) - 1 THEN 0
    ELSE IF lower(s[k]) = "to" /\ WordTok(s[k + 1]) THEN k
    ELSE AddToAt(s, k + 1)

IsAddTo(s) == Len(s) >= 4 /\ lower(s[1]) = "add" /\ AddToAt(s, 3) # 0

\* re.match(r'clear\s+\w+', s.lower())
IsClear(s) == Len(s) >= 2 /\ lower(s[1]) = "clear" /\ WordTok(s[2])

is_collection_operation(s) ==
    IF StartsWithWord(s, "print") THEN FALSE
    ELSE IsAddTo(s) \/ IsClear(s)

convert_collection_operation_expression(s) ==
    IF IsAddTo(s)
    THEN LET k == AddToAt(s, 3)
         IN  <<s[k + 1], ".", "add", "(">> \o SubSeq(s, 2, k - 1) \o <<")">>
    ELSE IF IsClear(s)
    THEN Drop(s, 1) \o <<".", "clear", "(", ")">>
    ELSE s

convert_collection_operation(s) ==
    LET converted == convert_collection_operation_expression(s)
    IN  IF converted # <<>> /\ Last(converted) = ";" THEN converted
        ELSE converted \o <<";">>

\* the `{..}` segments of the text become %s and their variables the arguments
RECURSIVE FormatOf(_)
FormatOf(content) ==
    IF content = <<>> THEN <<>>
    ELSE LET t == Head(content)
         IN  << IF t \in InterpWords THEN "%s"
                ELSE IF t \in QuotedWords THEN Escaped[t]
                ELSE t >> \o FormatOf(Tail(content))

RECURSIVE ArgsOf(_)
ArgsOf(content) ==
    IF content = <<>> THEN <<>>
    ELSE LET t == Head(content)
         IN  (IF t \in InterpWords THEN <<",", InterpVar[t]>> ELSE <<>>)
                 \o ArgsOf(Tail(content))

convert_interpolated_print(content) ==
    IF ArgsOf(content) # <<>>
    THEN <<"System.out.println", "(", "String.format", "(", "\"">>
             \o FormatOf(content) \o <<"\"">> \o ArgsOf(content)
             \o <<")", ")", ";">>
    ELSE <<"System.out.println", "(", "\"">> \o FormatOf(content)
             \o <<"\"", ")", ";">>

convert_simple_print(s) ==
    LET content == Drop(s, 1)
    IN  IF Head(content) \in QuotedWords /\ Last(content) \in QuotedWords
        THEN <<"System.out.println", "(">> \o content \o <<")", ";">>
        ELSE convert_interpolated_print(content)

\* _process_collection_type_in_declaration: (java_type, value); value <<>> is
\* Python's None
GenericOf(name, elem) == <<name, "<">> \o elem \o <<">">>

MapOf(name, elem) == <<name, "<", "String", ",">> \o elem \o <<">">>

NewOf(ty) == <<"new">> \o ty \o <<"(", ")">>

process_collection_type_in_declaration(type_, value) ==
    IF Has(type_, "/")
    THEN LET k == FirstAt(type_, "/", 1, Len(type_))
             container_type == IF k = 2 THEN lower(type_[1]) ELSE "?"
             element_type == Drop(type_, k)
             mapped_container ==
                 IF k = 2 THEN map_type(<<container_type>>) ELSE Take(type_, k - 1)
             mapped0 == map_type(element_type)
             mapped_element ==
                 IF is_primitive_type(mapped0) THEN get_wrapper_type(mapped0)
                 ELSE mapped0
             Dflt(ty, kws) ==
                 [type |-> ty,
                  value |-> IF value = <<>> \/ (Len(value) = 1 /\ value[1] \in kws)
                            THEN NewOf(ty) ELSE value]
         IN  CASE container_type \in {"arraylist", "list"} ->
                    Dflt(GenericOf("ArrayList", mapped_element), {"arraylist"})
               [] container_type = "linkedlist" ->
                    Dflt(GenericOf("LinkedList", mapped_element), {"linkedlist"})
               [] container_type \in {"map", "hashmap"} ->
                    Dflt(MapOf("HashMap", mapped_element), {"hashmap"})
               [] container_type = "treemap" ->
                    Dflt(MapOf("TreeMap", mapped_element), {"treemap"})
               [] container_type \in {"set", "hashset"} ->
                    Dflt(GenericOf("HashSet", mapped_element), {"hashset"})
               [] container_type = "treeset" ->
                    Dflt(GenericOf("TreeSet", mapped_element), {"treeset"})
               [] container_type = "stack" ->
                    Dflt(GenericOf("Stack", mapped_element), {"stack"})
               [] container_type = "queue" ->
                    Dflt(GenericOf("ArrayDeque", mapped_element), {"queue"})
               [] container_type \in {"deque", "arraydeque"} ->
                    Dflt(GenericOf("ArrayDeque", mapped_element),
                         {"deque", "arraydeque"})
               [] container_type = "vector" ->
                    Dflt(GenericOf("Vector", mapped_element), {"vector"})
               [] OTHER ->
                    [type |-> mapped_container \o <<"<">> \o mapped_element
                                  \o <<">">>,
                     value |-> value]
    ELSE [type |-> map_type(type_), value |-> value]

is_variable_declaration(s) ==
    \/ StartsWithWord(s, "var")
    \/ /\ HasInterior(s, "as")
       /\ \/ HasInterior(s, "with")
          \/ BareEq(s)
          \/ LET k == Interior(s, "as")
                 type_part == Drop(s, k)
             IN  /\ Count(s, "as") = 1
                 /\ k = 2 /\ IsIdent(s[1])
                 /\ \A kw \in {"to", "from", "in", "at", "into"} :
                        ~HasInterior(type_part, kw)

convert_variable_declaration(s) ==
    IF StartsWithWord(s, "var")
    THEN LET var_content == Drop(s, 1)
             k == Interior(var_content, "=")
             value == Drop(var_content, k)
         IN  IF k # 0
             THEN Ok(<<"var">> \o Take(var_content, k - 1) \o <<"=">>
                     \o (IF is_collection_operation(value)
                         THEN convert_collection_operation_expression(value)
                         ELSE value)
                     \o <<";">>)
             ELSE Raise("PseudoJavaError")
    ELSE IF HasInterior(s, "as")
    THEN LET kw == Interior(s, "with")
             ke == Interior(s, "=")
             k == IF kw # 0 THEN kw ELSE ke
             var_part == IF k # 0 THEN Take(s, k - 1) ELSE s
             raw == IF k # 0 THEN Drop(s, k) ELSE <<>>
             value == IF kw = 0 /\ ke # 0 /\ is_collection_operation(raw)
                      THEN convert_collection_operation_expression(raw)
                      ELSE raw
             ka == Interior(var_part, "as")
             name == Take(var_part, ka - 1)
             r == process_collection_type_in_declaration(Drop(var_part, ka), value)
         IN  IF ka # 0
             THEN IF r.value # <<>>
                  THEN Ok(r.type \o name \o <<"=">> \o r.value \o <<";">>)
                  ELSE Ok(r.type \o name \o <<";">>)
             ELSE Raise("PseudoJavaError")
    ELSE Ok(s \o <<";">>)

convert_simple_assignment(s) ==
    LET k == FirstAt(s, "=", 1, Len(s))
        right == Drop(s, k)
    IN  Take(s, k - 1) \o <<"=">>
            \o (IF is_collection_operation(right)
                THEN convert_collection_operation_expression(right)
                ELSE right)
            \o <<";">>

\* ' and ' -> ' && ', ' or ' -> ' || ', ' not ' -> ' !' inside the condition
convert_logical_operators(c) ==
    [k \in 1..Len(c) |->
        IF k = 1 \/ k = Len(c) THEN c[k]
        ELSE CASE c[k] = "and" -> "&&"
               [] c[k] = "or" -> "||"
               [] c[k] = "not" -> "!"
               [] OTHER -> c[k]]

convert_if_statement(s) ==
    <<"if", "(">> \o convert_logical_operators(rstrip_colon(Drop(s, 1)))
        \o <<")", "{">>

convert_elif_statement(s) ==
    <<"}", "else", "if", "(">>
        \o convert_logical_operators(rstrip_colon(Drop(s, 1))) \o <<")", "{">>

convert_while_loop(s) ==
    <<"while", "(">> \o convert_logical_operators(rstrip_colon(Drop(s, 1)))
        \o <<")", "{">>

convert_switch_statement(s) ==
    <<"switch", "(">> \o rstrip_colon(Drop(s, 1)) \o <<")", "{">>

convert_for_loop(s) ==
    LET kr == FirstAt(s, "range", 3, Len(s))
        in_range == kr # 0 /\ s[kr - 1] = "in" /\ kr < Len(s) /\ s[kr + 1] = "("
        kc == FirstAt(s, ":", 1, Len(s))
    IN  IF in_range
        THEN \* for\s+(\w+)\s+in\s+range\((.*?)\):
             LET kp == FirstAt(s, ")", 6, Len(s) - 1)
                 range_expr == SubSeq(s, 6, kp - 1)
                 km == FirstAt(range_expr, ",", 1, Len(range_expr))
                 v == s[2]
             IN  IF kr = 4 /\ IsIdent(s[2]) /\ kp # 0 /\ s[kp + 1] = ":"
                 THEN IF km = 0
                      THEN <<"for", "(", "int", v, "=", "0", ";", v, "<">>
                               \o range_expr \o <<";", v, "++", ")", "{">>
                      ELSE <<"for", "(", "int", v, "=">> \o Take(range_expr, km - 1)
                               \o <<";", v, "<">>
                               \o (LET rest == Drop(range_expr, km)
                                       k2 == FirstAt(rest, ",", 1, Len(rest))
                                   IN  IF k2 = 0 THEN rest ELSE Take(rest, k2 - 1))
                               \o <<";", v, "++", ")", "{">>
                 ELSE s
        ELSE IF HasInterior(s, "in")
        THEN \* for\s+(\w+)\s+in\s+([^:]+):
             LET collection == SubSeq(s, 4, kc - 1)
                 v == s[2]
             IN  IF IsIdent(s[2]) /\ s[3] = "in" /\ kc > 4
                 THEN IF Len(collection) >= 3 /\ Take(collection, 2) = <<"keys", "of">>
                      THEN <<"for", "(", "var", v, ":">> \o Drop(collection, 2)
                               \o <<".", "keySet", "(", ")", ")", "{">>
                      ELSE IF Len(collection) >= 3
                              /\ Take(collection, 2) = <<"values", "of">>
                      THEN <<"for", "(", "var", v, ":">> \o Drop(collection, 2)
                               \o <<".", "values", "(", ")", ")", "{">>
                      ELSE IF Len(collection) >= 2 /\ collection[1] \in {"each", "all"}
                      THEN <<"for", "(", "var", v, ":", Last(collection), ")", "{">>
                      ELSE <<"for", "(", "var", v, ":">> \o collection \o <<")", "{">>
                 ELSE s
        ELSE s

convert_statement_to_java(s) ==
    IF StartsWithWord(s, "print") THEN Ok(convert_simple_print(s))
    ELSE IF is_variable_declaration(s) THEN convert_variable_declaration(s)
    ELSE IF is_collection_operation(s) THEN Ok(convert_collection_operation(s))
    ELSE IF BareEq(s) THEN Ok(convert_simple_assignment(s))
    ELSE IF StartsWithWord(s, "if") THEN Ok(convert_if_statement(s))
    ELSE IF StartsWithWord(s, "elif") THEN Ok(convert_elif_statement(s))
    ELSE IF s = <<"else", ":">> THEN Ok(<<"else", "{">>)
    ELSE IF StartsWithWord(s, "for") THEN Ok(convert_for_loop(s))
    ELSE IF StartsWithWord(s, "while") THEN Ok(convert_while_loop(s))
    ELSE IF StartsWithWord(s, "switch") THEN Ok(convert_switch_statement(s))
    ELSE IF StartsWithWord(s, "return") THEN Ok(s \o <<";">>)
    ELSE IF Last(s) \notin {";", "{", "}"} THEN Ok(s \o <<";">>)
    ELSE Ok(s)

-----------------------------------------------------------------------------
(* parsers/statement_parser.py: parse_method_body.                          *)
(* A frame holds the locals of one call; i counts lines from 0 as the code  *)
(* does, expected_indent = -1 is None.  BodyStep is one iteration of the    *)
(* while loop; the iteration that leaves the loop also runs the closing     *)
(* loop over brace_stack and returns.                                       *)

TQ == "\"\"\""

extract_template_name_from_line(w) ==
    IF Len(w) >= 2 /\ lower(w[1]) \in Range(template_synonyms) /\ WordTok(w[2])
    THEN <<w[2]>>
    ELSE <<>>

is_template_line(w) == extract_template_name_from_line(w) # <<>>

known_sections ==
    {<<"instance", "vars">>, <<"constructor">>, <<"instance", "methods">>,
     <<"getters", "setters">>, <<"main">>}
        \cup {<<template_synonyms[k], "vars">> : k \in 1..Len(template_synonyms)}
        \cup {<<template_synonyms[k], "methods">> : k \in 1..Len(template_synonyms)}
        \cup abstract_methods_synonyms

is_section_header(w, current_indent) ==
    IF w = <<"main">> /\ current_indent = 4 THEN TRUE
    ELSE IF Last(w) # ":" \/ current_indent # 4 THEN FALSE
    ELSE Take(w, Len(w) - 1) \in known_sections

NewFrame(start_idx) ==
    [i |-> start_idx, body |-> <<>>, expected_indent |-> -1,
     brace_stack |-> <<>>, indent_stack |-> <<>>,
     in_multiline_comment |-> FALSE, st |-> "run", err |-> "none"]

\* while brace_stack: body.append('}'); brace_stack.pop()   -- then return
BodyReturn(f) ==
    [f EXCEPT !.body = f.body \o [k \in 1..Len(f.brace_stack) |-> <<"}">>],
              !.brace_stack = <<>>,
              !.st = "done"]

\* while indent_stack and current_indent <= indent_stack[-1]: close one block
RECURSIVE CloseBlocks(_, _)
CloseBlocks(f, current_indent) ==
    IF f.indent_stack # <<>> /\ current_indent <= Last(f.indent_stack)
    THEN CloseBlocks(
            [f EXCEPT !.body = Append(f.body, <<"}">>),
                      !.indent_stack = Take(f.indent_stack, Len(f.indent_stack) - 1),
                      !.brace_stack =
                          IF f.brace_stack # <<>>
                          THEN Take(f.brace_stack, Len(f.brace_stack) - 1)
                          ELSE f.brace_stack],
            current_indent)
    ELSE f

\* body.append(x) for each x of out, then i += 1; a raised error ends the call
Emit(f, out) == [f EXCEPT !.body = f.body \o out, !.i = f.i + 1]

Raised(f, kind) == [f EXCEPT !.st = "raised", !.err = kind]

\* lines 34-75: a line that holds """
TripleQuoteLine(f, w) ==
    LET k == FirstAt(w, TQ, 1, Len(w))
        before == Take(w, k - 1)
        after == Drop(w, k)
        conv == convert_statement_to_java(IF f.in_multiline_comment THEN after
                                          ELSE before)
    IN  IF ~f.in_multiline_comment
        THEN IF w[1] = TQ /\ Last(w) = TQ /\ Len(w) >= 3
             THEN Emit(f, << <<"/*">> \o SubSeq(w, 2, Len(w) - 1) \o <<"*/">> >>)
             ELSE IF w[1] = TQ
             THEN [Emit(f, << <<"/*">> \o after >>)
                      EXCEPT !.in_multiline_comment = TRUE]
             ELSE IF ~conv.ok THEN Raised(f, conv.err)
             ELSE [Emit(f, <<conv.val, <<"/*">> \o after>>)
                      EXCEPT !.in_multiline_comment = TRUE]
        ELSE IF Last(w) = TQ
             THEN [Emit(f, << Take(w, Len(w) - 1) \o <<"*/">> >>)
                      EXCEPT !.in_multiline_comment = FALSE]
             ELSE IF after = <<>> \/ conv.ok
             THEN [Emit(f, << before \o <<"*/">> >>
                              \o (IF after = <<>> THEN <<>> ELSE <<conv.val>>))
                      EXCEPT !.in_multiline_comment = FALSE]
             ELSE Raised([f EXCEPT !.body = Append(f.body, before \o <<"*/">>),
                                   !.in_multiline_comment = FALSE], conv.err)

\* lines 116-170: close the blocks the line leaves, convert it, open its block
CodeLine(f0, w, current_indent) ==
    LET f == CloseBlocks(f0, current_indent)
        kc == IF Has(w, "//") THEN FirstAt(w, "//", 1, Len(w))
              ELSE FirstAt(w, "#", 1, Len(w))
        code_part == IF kc = 0 THEN w ELSE Take(w, kc - 1)
        comment_part == IF kc = 0 THEN <<>> ELSE Drop(w, kc)
        conv == convert_statement_to_java(code_part)
        java_line ==
            IF kc = 0 THEN conv.val
            ELSE IF code_part = <<>> THEN <<"//">> \o comment_part
            ELSE IF comment_part # <<>> THEN conv.val \o <<"//">> \o comment_part
            ELSE conv.val
        opens == java_line # <<>> /\ Last(java_line) = "{"
    IN  IF code_part # <<>> /\ ~conv.ok THEN Raised(f, conv.err)
        ELSE [Emit(f, <<java_line>>)
                 EXCEPT !.brace_stack =
                            IF opens THEN Append(f.brace_stack, "open")
                            ELSE f.brace_stack,
                        !.indent_stack =
                            IF opens THEN Append(f.indent_stack, current_indent)
                            ELSE f.indent_stack]

BodyStep(L, f) ==
    IF f.i >= Len(L) THEN BodyReturn(f)
    ELSE
    LET line == L[f.i + 1]
        w == line.w
        current_indent == line.ind
    IN  IF Has(w, TQ) THEN TripleQuoteLine(f, w)
        ELSE IF f.in_multiline_comment THEN Emit(f, <<w>>)
        ELSE IF w = <<>> THEN Emit(f, << <<>> >>)
        ELSE IF w[1] = "//" THEN Emit(f, <<w>>)
        ELSE IF w[1] = "#" THEN Emit(f, << <<"//">> \o Tail(w) >>)
        ELSE IF is_section_header(w, current_indent) THEN BodyReturn(f)
        ELSE IF current_indent = 0 /\ (is_template_line(w) \/ w = <<"main">>)
        THEN BodyReturn(f)
        ELSE IF f.expected_indent # -1 /\ current_indent < f.expected_indent
        THEN BodyReturn(f)
        ELSE CodeLine([f EXCEPT !.expected_indent =
                                    IF f.expected_indent = -1 THEN current_indent
                                    ELSE f.expected_indent],
                      w, current_indent)

\* the number of `{` and of `}` in a list of output lines
Braces(body, b) == Count(Flatten(body), b)

-----------------------------------------------------------------------------
(* The bodies parse_method_body is run on: up to MaxBodyLines consistently  *)
(* indented lines (a header is followed by a deeper line, elif/else continue *)
(* an if at the same indentation), then perhaps the line that ends the body. *)

MaxBodyLines == 4

BaseIndent == 8

IndentStep == 4

PlainStatements == {<<"x", "=", "1">>, <<"print", "\"hi\"">>, <<"return", "x">>}

OpeningHeaders ==
    {<<"if", "x", ">", "0", ":">>,
     <<"for", "i", "in", "range", "(", "3", ")", ":">>,
     <<"while", "x", "<", "3", ":">>,
     <<"switch", "x", ":">>}

ContinuingHeaders == {<<"elif", "x", "<", "0", ":">>, <<"else", ":">>}

IsHeaderLine(l) == l.w \in OpeningHeaders \cup ContinuingHeaders

\* lines that are skipped wherever they stand
SkippedLines == {[ind |-> 0, w |-> <<>>], [ind |-> BaseIndent, w |-> <<"#", "note">>]}

\* the last line of p that is not a skipped one, as a one-element sequence
RECURSIVE LastCode(_)
LastCode(p) ==
    IF p = <<>> THEN <<>>
    ELSE IF Last(p) \in SkippedLines THEN LastCode(Take(p, Len(p) - 1))
    ELSE <<Last(p)>>

\* the last line of p at indentation <= d, as a one-element sequence
RECURSIVE LastAtMost(_, _)
LastAtMost(p, d) ==
    IF p = <<>> THEN <<>>
    ELSE IF Last(p) \notin SkippedLines /\ Last(p).ind <= d THEN <<Last(p)>>
    ELSE LastAtMost(Take(p, Len(p) - 1), d)

Indents(lo, hi) == {d \in lo..hi : (d - lo) % IndentStep = 0}

\* the lines that may follow the consistently indented prefix p
NextLines(p) ==
    LET lc == LastCode(p)
    IN  IF lc = <<>>
        THEN {[ind |-> BaseIndent, w |-> w] : w \in PlainStatements \cup OpeningHeaders}
        ELSE IF IsHeaderLine(lc[1])
        THEN {[ind |-> lc[1].ind + IndentStep, w |-> w] :
                  w \in PlainStatements \cup OpeningHeaders}
        ELSE {[ind |-> d, w |-> w] :
                  d \in Indents(BaseIndent, lc[1].ind),
                  w \in PlainStatements \cup OpeningHeaders}
             \cup
             {l \in {[ind |-> d, w |-> w] :
                        d \in Indents(BaseIndent, lc[1].ind - IndentStep),
                        w \in ContinuingHeaders} :
                  LET h == LastAtMost(p, l.ind)
                  IN  h # <<>> /\ h[1].ind = l.ind /\ Len(h[1].w) >= 1
                      /\ h[1].w[1] \in {"if", "elif"}}

\* at most one skipped line in a body, never first
Followers(p) ==
    NextLines(p) \cup
        (IF p # <<>> /\ \A k \in 1..Len(p) : p[k] \notin SkippedLines
         THEN SkippedLines ELSE {})

RECURSIVE BodyPrefixes(_)
BodyPrefixes(n) ==
    IF n = 0 THEN {<<>>}
    ELSE LET shorter == BodyPrefixes(n - 1)
         IN  shorter \cup
             UNION {{Append(p, l) : l \in Followers(p)} :
                        p \in {q \in shorter : Len(q) = n - 1}}

\* the line a body stops at: a section header, a block header, main, a dedent
BodyEnders ==
    {[ind |-> 4, w |-> <<"instance", "methods", ":">>],
     [ind |-> 0, w |-> <<"class", "Dog">>],
     [ind |-> 0, w |-> <<"main">>],
     [ind |-> 4, w |-> <<"x", "=", "1">>]}

\* the bodies of at most n lines
BodyInputs(n) ==
    BodyPrefixes(n) \cup {Append(p, e) : p \in BodyPrefixes(n - 1), e \in BodyEnders}

-----------------------------------------------------------------------------
(* Values of the variables a behaviour does not use *)

Idle == [st |-> "idle"]

InitBody ==
    /\ mode = "body"
    /\ lines \in BodyInputs(MaxBodyLines)
    /\ pb = NewFrame(0)
    /\ stmt = Idle /\ vin = Idle /\ prog = Idle /\ acc = Idle /\ app = Idle
    /\ gui = Idle

\* one iteration of the loop of parse_method_body
ParseBodyStep ==
    /\ mode = "body"
    /\ pb.st = "run"
    /\ pb' = BodyStep(lines, pb)
    /\ UNCHANGED <<mode, lines, stmt, vin, prog, acc, app, gui>>

SpecBody == InitBody /\ [][ParseBodyStep]_vars

\* C1: when parse_method_body returns, the output lines hold as many `{` as
\* `}`.
C1_BracesBalanced ==
    (mode = "body" /\ pb.st = "done")
        => Braces(pb.body, "{") = Braces(pb.body, "}")

-----------------------------------------------------------------------------
(* convert_statement_to_java on single statements *)

CreationArgs == {<<"\"Toyota\"">>, <<"1", ",", "2">>}

CreationLines ==
    {<<object_creation_verbs[v], n, "as", t, "with">> \o a :
        v \in 1..Len(object_creation_verbs), n \in {"car1", "c"},
        t \in {"Car", "Dog"}, a \in CreationArgs}

OtherStatements ==
    PlainStatements \cup OpeningHeaders \cup ContinuingHeaders
        \cup {<<"print", "total", "{x}">>, <<"x", "as", "int", "with", "5">>,
              <<"x", "as", "int", "=", "5">>, <<"x", "as", "Car">>,
              <<"xs", "as", "list", "/", "int">>,
              <<"xs", "as", "queue", "/", "int">>,
              <<"var", "x", "=", "5">>, <<"var", "x">>,
              <<"x", "with", "y", "as", "z">>,
              <<"add", "5", "to", "xs">>, <<"clear", "xs">>,
              <<"n", "=", "add", "5", "to", "xs">>,
              <<"for", "v", "in", "keys", "of", "m", ":">>,
              <<"for", "v", "in", "xs">>,
              <<"if", "a", "and", "b", ":">>, <<"if", "x", "=", "1", ":">>,
              <<"count", "++">>, <<"done", ";">>}

\* the container tokens of the extended vocabulary
ExtendedContainers ==
    {"linkedlist", "treemap", "treeset", "stack", "queue", "deque",
     "arraydeque", "vector"}

\* `xs as <container>/<element>`, with no value and with the container token
\* as the value
ContainerDeclarations ==
    {<<"xs", "as", c, "/", e>> : c \in ExtendedContainers, e \in {"int", "string"}}
        \cup {<<"xs", "as", c, "/", "int", "=", c>> : c \in ExtendedContainers}

StmtInputs == CreationLines \cup OtherStatements \cup ContainerDeclarations

InitStmt ==
    /\ mode = "stmt"
    /\ stmt \in {[st |-> "in", s |-> s, res |-> Raise("none")] : s \in StmtInputs}
    /\ lines = <<>>
    /\ pb = Idle /\ vin = Idle /\ prog = Idle /\ acc = Idle /\ app = Idle
    /\ gui = Idle

ConvertStatement ==
    /\ mode = "stmt"
    /\ stmt.st = "in"
    /\ stmt' = [stmt EXCEPT !.st = "out", !.res = convert_statement_to_java(stmt.s)]
    /\ UNCHANGED <<mode, lines, pb, vin, prog, acc, app, gui>>

SpecStmt == InitStmt /\ [][ConvertStatement]_vars

\* `<verb> <name> as <Type> with <args>` with a creation verb
IsCreationLine(s) ==
    /\ Len(s) >= 6
    /\ s[1] \in Range(object_creation_verbs)
    /\ s[3] = "as" /\ s[5] = "with"

\* C2: a creation line `<verb> <name> as <Type> with <args>` converts to
\* `Type name = new Type(args);` (the creation rule is taken before the print,
\* declaration and assignment rules).
C2_ObjectCreation ==
    (mode = "stmt" /\ stmt.st = "out" /\ IsCreationLine(stmt.s))
        => stmt.res = Ok(<<stmt.s[4], stmt.s[2], "=", "new", stmt.s[4], "(">>
                            \o Drop(stmt.s, 5) \o <<")", ";">>)

-----------------------------------------------------------------------------
(* parsers/variable_parser.py.  A Variable's initial_value <<>> is None.    *)

AccessChars == {"*", "-", "+"}

process_collection_type(type_, initial_value) ==
    IF ~Has(type_, "/") THEN [type |-> map_type(type_), value |-> initial_value]
    ELSE
    LET k == FirstAt(type_, "/", 1, Len(type_))
        container_type == IF k = 2 THEN lower(type_[1]) ELSE "?"
        mapped_container ==
            IF k = 2 THEN map_type(<<container_type>>) ELSE Take(type_, k - 1)
        mapped0 == map_type(Drop(type_, k))
        mapped_element ==
            IF is_primitive_type(mapped0) THEN get_wrapper_type(mapped0) ELSE mapped0
        Dflt(ty, kw) ==
            [type |-> ty,
             value |-> IF initial_value = <<>> \/ initial_value = <<kw>>
                       THEN NewOf(ty) ELSE initial_value]
    IN  IF container_type \in {"arraylist", "list"}
        THEN Dflt(GenericOf("ArrayList", mapped_element), "arraylist")
        ELSE IF container_type \in {"map", "hashmap"}
        THEN Dflt(MapOf("HashMap", mapped_element), "hashmap")
        ELSE IF container_type \in {"set", "hashset"}
        THEN Dflt(GenericOf("HashSet", mapped_element), "hashset")
        ELSE [type |-> mapped_container \o <<"<">> \o mapped_element \o <<">">>,
              value |-> initial_value]

NoVariable == [none |-> TRUE]

\* parse_variable(lines, start_idx, is_static) on the stripped line w:
\* Ok([var, next]) or the error raised
parse_variable(w, start_idx, is_static) ==
    IF w = <<>> \/ w[1] = "//"
    THEN Ok([var |-> NoVariable, next |-> start_idx + 1])
    ELSE
    LET access == IF w[1] \in AccessChars THEN w[1] ELSE ""
        line == IF w[1] \in AccessChars THEN Tail(w) ELSE w
        kw == Interior(line, "with")
        ke == Interior(line, "=")
        k == IF kw # 0 THEN kw ELSE ke
        var_part == IF k # 0 THEN Take(line, k - 1) ELSE line
        initial_value == IF k # 0 THEN Drop(line, k) ELSE <<>>
        ka == Interior(var_part, "as")
        r == process_collection_type(Drop(var_part, ka), initial_value)
    IN  IF ka = 0 THEN Raise("PseudoJavaError")
        ELSE Ok([var |-> [name |-> Take(var_part, ka - 1), type_ |-> r.type,
                          access |-> access, initial_value |-> r.value,
                          is_static |-> is_static],
                 next |-> start_idx + 1])

(* the declaration lines parse_variable is run on *)

BaseContainers == {"arraylist", "list", "map", "hashmap", "set", "hashset"}

OtherContainers == {"linkedlist", "queue", "List"}

ElementTypes == {"int", "string", "Car"}

Initializers(c) ==
    {<<>>, <<"with", c>>, <<"with", "arraylist">>, <<"with", "hashmap">>,
     <<"with", "hashset">>, <<"with", "items2">>, <<"=", "null">>}

CollectionDeclarations ==
    UNION {{<<"items", "as", c, "/", e>> \o i : i \in Initializers(c)} :
              c \in BaseContainers \cup OtherContainers, e \in ElementTypes}

PlainDeclarations ==
    {<<"n", "as", t>> \o i :
        t \in {"int", "String", "Car"}, i \in {<<>>, <<"with", "0">>, <<"=", "0">>}}

\* lines whose declaration part holds no ` as `
UntypedDeclarations ==
    {<<"name">>, <<"name", "#", "Missing", "type">>, <<"count", "=", "5">>,
     <<"x", "with", "y", "as", "int">>, <<"as", "int">>}

VarLines ==
    {a \o d : a \in {<<>>, <<"-">>, <<"*">>},
              d \in CollectionDeclarations \cup PlainDeclarations
                        \cup UntypedDeclarations}
        \cup {<<>>, <<"//", "fields">>}

InitVar ==
    /\ mode = "var"
    /\ vin \in {[st |-> "in", w |-> w, is_static |-> b, res |-> Raise("none")] :
                   w \in VarLines, b \in BOOLEAN}
    /\ lines = <<>>
    /\ pb = Idle /\ stmt = Idle /\ prog = Idle /\ acc = Idle /\ app = Idle
    /\ gui = Idle

ParseVariable ==
    /\ mode = "var"
    /\ vin.st = "in"
    /\ vin' = [vin EXCEPT !.st = "out",
                          !.res = parse_variable(vin.w, 0, vin.is_static)]
    /\ UNCHANGED <<mode, lines, pb, stmt, prog, acc, app, gui>>

SpecVar == InitVar /\ [][ParseVariable]_vars

\* the line without its access character
Declaration(w) == IF w # <<>> /\ w[1] \in AccessChars THEN Tail(w) ELSE w

\* the text before the first ` with `, else before the first ` = `
DeclarationPart(w) ==
    LET d == Declaration(w)
    IN  IF HasInterior(d, "with") THEN Take(d, Interior(d, "with") - 1)
        ELSE IF HasInterior(d, "=") THEN Take(d, Interior(d, "=") - 1)
        ELSE d

InitializerOf(w) ==
    LET d == Declaration(w)
    IN  IF HasInterior(d, "with") THEN Drop(d, Interior(d, "with"))
        ELSE IF HasInterior(d, "=") THEN Drop(d, Interior(d, "=")) ELSE <<>>

\* `name as <container>/<element>` with single tokens
IsShorthand(w) ==
    LET d == DeclarationPart(w)
    IN  Len(d) = 5 /\ d[2] = "as" /\ d[4] = "/"

\* C6: a non-blank, non-comment line whose declaration part holds no ` as `
\* makes parse_variable fail with a VariableError and yield no Variable.
C6_UntypedIsVariableError ==
    (mode = "var" /\ vin.st = "out" /\ vin.w # <<>> /\ vin.w[1] # "//"
        /\ ~HasInterior(DeclarationPart(vin.w), "as"))
        => (~vin.res.ok /\ IsA(vin.res.err, "VariableError"))

\* C8: `name as <container>/<element>` without initializer gets the initial
\* value `new T()`, T the variable's resolved type, its element type boxed; with
\* an initializer other than a bare container keyword the initializer is kept.
C8_CollectionDefault ==
    (mode = "var" /\ vin.st = "out" /\ IsShorthand(vin.w))
        => /\ vin.res.ok
           /\ \A k \in 1..Len(vin.res.val.var.type_) :
                  vin.res.val.var.type_[k] \notin primitives
           /\ InitializerOf(vin.w) = <<>>
                  => vin.res.val.var.initial_value = NewOf(vin.res.val.var.type_)
           /\ (InitializerOf(vin.w) # <<>>
                  /\ InitializerOf(vin.w)[1] \notin BaseContainers)
                  => vin.res.val.var.initial_value = InitializerOf(vin.w)

\* C9: `name as <container>/<element> with <container>`, the initializer being
\* the bare container keyword of the shorthand (one of the six base keywords),
\* gets the synthesized default `new T()` and not the keyword.
C9_BareKeywordInitializer ==
    (mode = "var" /\ vin.st = "out" /\ IsShorthand(vin.w)
        /\ DeclarationPart(vin.w)[3] \in BaseContainers
        /\ InitializerOf(vin.w) = <<DeclarationPart(vin.w)[3]>>)
        => /\ vin.res.ok
           /\ vin.res.val.var.initial_value = NewOf(vin.res.val.var.type_)

-----------------------------------------------------------------------------
(* generators/java_generator.py: _generate_getter_setter.                   *)
(* str.capitalize() works on characters, so the names of the vocabulary are *)
(* spelled out; the accessor's name is emitted as `get` or `set` and the     *)
(* characters of the capitalized name.                                      *)

Spelling ==
    [name |-> <<"n", "a", "m", "e">>,
     model |-> <<"m", "o", "d", "e", "l">>,
     totalCars |-> <<"t", "o", "t", "a", "l", "C", "a", "r", "s">>,
     x |-> <<"x">>,
     isOK |-> <<"i", "s", "O", "K">>,
     Id |-> <<"I", "d">>]

UpperCase ==
    [a |-> "A", d |-> "D", e |-> "E", i |-> "I", l |-> "L", m |-> "M",
     n |-> "N", o |-> "O", r |-> "R", s |-> "S", t |-> "T", x |-> "X"]

LowerCase ==
    [A |-> "a", C |-> "c", D |-> "d", E |-> "e", I |-> "i", K |-> "k",
     L |-> "l", M |-> "m", N |-> "n", O |-> "o", R |-> "r", S |-> "s",
     T |-> "t", X |-> "x"]

upper_char(c) == IF c \in DOMAIN UpperCase THEN UpperCase[c] ELSE c

lower_char(c) == IF c \in DOMAIN LowerCase THEN LowerCase[c] ELSE c

\* str.capitalize(): the first character upper-cased, the others lower-cased
capitalize(cs) ==
    [k \in 1..Len(cs) |-> IF k = 1 THEN upper_char(cs[k]) ELSE lower_char(cs[k])]

access_modifiers ==
    [a \in AccessChars \cup {""} |->
        CASE a = "*" -> <<"public">>
          [] a = "-" -> <<"private">>
          [] a = "+" -> <<"protected">>
          [] OTHER -> <<>>]

getter_name(var) == <<"get">> \o capitalize(Spelling[var.name])

setter_name(var) == <<"set">> \o capitalize(Spelling[var.name])

\* the lines of the getter and of the setter of var
generate_getter_setter(var, access) ==
    << access_modifiers[access] \o var.type_ \o getter_name(var)
           \o <<"(", ")", "{">>,
       <<"return", var.name, ";">>,
       <<"}">>,
       <<>>,
       access_modifiers[access] \o <<"void">> \o setter_name(var) \o <<"(">>
           \o var.type_ \o <<var.name, ")", "{">>,
       <<"this", ".", var.name, "=", var.name, ";">>,
       <<"}">> >>

AccessorTypes == {<<"int">>, <<"String">>, <<"ArrayList", "<", "Integer", ">">>}

InitAcc ==
    /\ mode = "acc"
    /\ acc \in {[st |-> "in", var |-> [name |-> n, type_ |-> t], access |-> a,
                 out |-> <<>>] :
                   n \in DOMAIN Spelling, t \in AccessorTypes,
                   a \in AccessChars \cup {""}}
    /\ lines = <<>>
    /\ pb = Idle /\ stmt = Idle /\ vin = Idle /\ prog = Idle /\ app = Idle
    /\ gui = Idle

GenerateGetterSetter ==
    /\ mode = "acc"
    /\ acc.st = "in"
    /\ acc' = [acc EXCEPT !.st = "out",
                          !.out = generate_getter_setter(acc.var, acc.access)]
    /\ UNCHANGED <<mode, lines, pb, stmt, vin, prog, app, gui>>

SpecAcc == InitAcc /\ [][GenerateGetterSetter]_vars

\* v with only its first character upper-cased
FirstUpper(cs) == [k \in 1..Len(cs) |-> IF k = 1 THEN upper_char(cs[k]) ELSE cs[k]]


\* C10: the accessors of v are named get<C> and set<C>, C being v with only
\* its first character upper-cased and every other character unchanged.
C10_AccessorNames ==
    (mode = "acc" /\ acc.st = "out")
        => LET n == Len(access_modifiers[acc.access])
               C == FirstUpper(Spelling[acc.var.name])
           IN  /\ SubSeq(acc.out[1], n + Len(acc.var.type_) + 1,
                         n + Len(acc.var.type_) + 1 + Len(C))
                      = <<"get">> \o C
               /\ SubSeq(acc.out[5], n + 2, n + 2 + Len(C)) = <<"set">> \o C

-----------------------------------------------------------------------------
(* javax_parser.py: main, with utils/cli.py and utils/file_handler.py.      *)
(* The file system, the parser, the generator and the Java tools are the    *)
(* environment: each call ends in one of the outcomes its code can produce. *)
(* app.calls is the sequence of calls made so far, app.files the paths      *)
(* written, app.exit the exit status of the process (Running before it).    *)

Running == -1

\* Python truthiness of an optional string
Truthy(v) == v /= "None" /\ v /= ""

\* utils/cli.py: parse_arguments after argparse accepted the command line
parse_arguments(argv, env) ==
    [argv EXCEPT
        !.verbose = IF env.JAVAX_VERBOSE /= "0" THEN TRUE ELSE argv.verbose,
        !.output_dir = IF ~Truthy(argv.output_dir) /\ Truthy(env.JAVAX_OUTPUT_DIR)
                       THEN env.JAVAX_OUTPUT_DIR ELSE argv.output_dir]

\* a resolution that looks at the output directory before the explicit path
output_file_preferring_directory(input_file, program_name, output_file, output_dir) ==
    IF Truthy(output_dir) THEN <<output_dir, "/", program_name, ".java">>
    ELSE IF Truthy(output_file) THEN <<output_file>>
    ELSE <<program_name, ".java">>

\* utils/file_handler.py: determine_output_file
determine_output_file(input_file, program_name, output_file, output_dir) ==
    IF Truthy(output_file) THEN <<output_file>>
    ELSE IF Truthy(output_dir) THEN <<output_dir, "/", program_name, ".java">>
    ELSE <<program_name, ".java">>

\* the except clauses of main: every exception ends the process with status 1
Handled(a, call, kind) ==
    [a EXCEPT !.pc = "exit", !.exit = 1,
              !.calls = Append(a.calls, call),
              !.stderr = IF IsA(kind, "PseudoJavaError") THEN "Pseudo Java Error"
                         ELSE IF kind = "FileNotFoundError" THEN "File Error"
                         ELSE "Unexpected error"]

\* sys.exit(status), or main returning (status 0)
Exited(a, status) == [a EXCEPT !.pc = "exit", !.exit = status]

OptionalStrings(v) == {"None", "", v}

CommandLines ==
    [kind : {"accepted"}, test : BOOLEAN, input : OptionalStrings("prog.pj"),
     output : OptionalStrings("Out.java"), output_dir : OptionalStrings("gen"),
     compile : BOOLEAN, run : BOOLEAN, verbose : BOOLEAN]
    \cup [kind : {"usage", "version"}, test : {FALSE}, input : {"None"},
          output : {"None"}, output_dir : {"None"}, compile : {FALSE},
          run : {FALSE}, verbose : {FALSE}]

Environments ==
    [JAVAX_VERBOSE : {"0", "1"}, JAVAX_OUTPUT_DIR : OptionalStrings("envdir")]

ProgramNames == {"Main", "Car"}

InitMain ==
    /\ mode = "main"
    /\ app \in {[st |-> "main", pc |-> "parse_arguments", argv |-> c, env |-> e,
                 args |-> c, calls |-> <<>>, files |-> {}, parse |-> "none",
                 gen |-> "none", compiled |-> "none", ran |-> "none",
                 program_name |-> "", output_file |-> <<>>,
                 stderr |-> "", exit |-> Running] :
                   c \in CommandLines, e \in Environments}
    /\ lines = <<>>
    /\ pb = Idle /\ stmt = Idle /\ vin = Idle /\ prog = Idle /\ acc = Idle
    /\ gui = Idle

\* cli.parse_arguments(): argparse leaves with status 2 on a usage error and
\* with status 0 after --version
ParseArguments ==
    /\ mode = "main" /\ app.pc = "parse_arguments"
    /\ app' = CASE app.argv.kind = "usage" -> Exited(app, 2)
                [] app.argv.kind = "version" -> Exited(app, 0)
                [] OTHER -> [app EXCEPT !.pc = "modes",
                                        !.args = parse_arguments(app.argv, app.env)]
    /\ UNCHANGED <<mode, lines, pb, stmt, vin, prog, acc, gui>>

\* if args.test: run_tests(); return
RunTests ==
    /\ mode = "main" /\ app.pc = "modes" /\ app.args.test
    /\ \E failed \in BOOLEAN :
         app' = Exited([app EXCEPT !.calls = Append(@, "run_tests")],
                       IF failed THEN 1 ELSE 0)
    /\ UNCHANGED <<mode, lines, pb, stmt, vin, prog, acc, gui>>

\* if not args.input: cli.print_help(); sys.exit(1)
NoInput ==
    /\ mode = "main" /\ app.pc = "modes" /\ ~app.args.test
    /\ ~Truthy(app.args.input)
    /\ app' = Exited([app EXCEPT !.calls = Append(@, "print_help")], 1)
    /\ UNCHANGED <<mode, lines, pb, stmt, vin, prog, acc, gui>>

ReadFile ==
    /\ mode = "main" /\ app.pc = "modes" /\ ~app.args.test
    /\ Truthy(app.args.input)
    /\ \E r \in {"ok", "PseudoJavaError"} :
         app' = IF r = "ok"
                THEN [app EXCEPT !.pc = "parse_program",
                                 !.calls = Append(@, "read_file")]
                ELSE Handled(app, "read_file", r)
    /\ UNCHANGED <<mode, lines, pb, stmt, vin, prog, acc, gui>>

ParseProgramIgnoringErrors ==
    /\ mode = "main" /\ app.pc = "parse_program"
    /\ \E r \in {"ok", "PseudoJavaError", "IndexError"}, n \in ProgramNames :
         app' = [app EXCEPT !.pc = "generate", !.parse = r,
                            !.program_name = n,
                            !.calls = Append(@, "parse_program")]
    /\ UNCHANGED <<mode, lines, pb, stmt, vin, prog, acc, gui>>

\* parser.parse_program(pseudo_code)
ParseProgram ==
    /\ mode = "main" /\ app.pc = "parse_program"
    /\ \E r \in {"ok", "PseudoJavaError", "IndexError"}, n \in ProgramNames :
         app' = IF r = "ok"
                THEN [app EXCEPT !.pc = "generate", !.parse = "ok",
                                 !.program_name = n,
                                 !.calls = Append(@, "parse_program")]
                ELSE [Handled(app, "parse_program", r) EXCEPT !.parse = r]
    /\ UNCHANGED <<mode, lines, pb, stmt, vin, prog, acc, gui>>

\* generator.generate(parsed_data)
Generate ==
    /\ mode = "main" /\ app.pc = "generate"
    /\ \E r \in {"ok", "Exception"} :
         app' = IF r = "ok"
                THEN [app EXCEPT !.pc = "write_file", !.gen = "ok",
                                 !.calls = Append(@, "generate")]
                ELSE [Handled(app, "generate", r) EXCEPT !.gen = r]
    /\ UNCHANGED <<mode, lines, pb, stmt, vin, prog, acc, gui>>

\* determine_output_file(...) and write_file(output_file, java_code); main
\* returns after it unless compiling or running was asked for
WriteFile ==
    /\ mode = "main" /\ app.pc = "write_file"
    /\ LET output_file == determine_output_file(app.args.input, app.program_name,
                                                app.args.output, app.args.output_dir)
       IN \E r \in {"ok", "PseudoJavaError"} :
            app' = IF r = "ok"
                   THEN LET a == [app EXCEPT !.output_file = output_file,
                                             !.files = @ \cup {output_file},
                                             !.calls = Append(@, "write_file")]
                        IN  IF app.args.compile \/ app.args.run
                            THEN [a EXCEPT !.pc = "compile"]
                            ELSE Exited(a, 0)
                   ELSE Handled([app EXCEPT !.output_file = output_file],
                                "write_file", r)
    /\ UNCHANGED <<mode, lines, pb, stmt, vin, prog, acc, gui>>

\* java_tools.compile(output_file): True, False, or PseudoJavaError
Compile ==
    /\ mode = "main" /\ app.pc = "compile"
    /\ \E r \in {"True", "False", "PseudoJavaError"} :
         app' = CASE r = "True" ->
                       LET a == [app EXCEPT !.calls = Append(@, "compile"),
                                            !.compiled = r]
                       IN  IF app.args.run THEN [a EXCEPT !.pc = "run"]
                           ELSE Exited(a, 0)
                  [] r = "False" ->
                       Exited([app EXCEPT !.calls = Append(@, "compile"),
                                          !.compiled = r,
                                          !.stderr = "Compilation failed!"], 1)
                  [] OTHER -> [Handled(app, "compile", r) EXCEPT !.compiled = r]
    /\ UNCHANGED <<mode, lines, pb, stmt, vin, prog, acc, gui>>

\* java_tools.run(output_file): its result is not looked at
Run ==
    /\ mode = "main" /\ app.pc = "run"
    /\ \E r \in {"True", "False", "PseudoJavaError"} :
         app' = IF r \in {"True", "False"}
                THEN Exited([app EXCEPT !.calls = Append(@, "run"), !.ran = r], 0)
                ELSE [Handled(app, "run", r) EXCEPT !.ran = r]
    /\ UNCHANGED <<mode, lines, pb, stmt, vin, prog, acc, gui>>

NextMain ==
    \/ ParseArguments
    \/ RunTests
    \/ NoInput
    \/ ReadFile
    \/ ParseProgram
    \/ Generate
    \/ WriteFile
    \/ Compile
    \/ Run

SpecMain == InitMain /\ [][NextMain]_vars

\* a step of the entry point failed: the command line was rejected or named
\* no input, parsing failed, compiling failed, or the run step raised or
\* reported an unsuccessful execution
SomeStepFailed ==
    \/ app.argv.kind = "usage"
    \/ Has(app.calls, "print_help")
    \/ app.parse \notin {"none", "ok"}
    \/ app.compiled \in {"False", "PseudoJavaError"}
    \/ app.ran \in {"False", "PseudoJavaError"}

\* C17: the process ends with status 1 whenever argument validation, parsing,
\* compiling or the requested run step failed, and with status 0 only when
\* no requested step failed.
C17_ExitStatus ==
    (mode = "main" /\ app.pc = "exit")
        => /\ SomeStepFailed => app.exit = 1
           /\ app.exit = 0 => ~SomeStepFailed

\* C16: the output path is the explicit output path when one was given on the
\* command line, whatever the output directory; else
\* <output_dir>/<program_name>.java for the --output-dir given; else the same
\* with the directory of JAVAX_OUTPUT_DIR when that is set; else
\* <program_name>.java.  (Given: with a non-empty value.)
C16_OutputFilePrecedence ==
    (mode = "main" /\ app.output_file # <<>>)
        => app.output_file =
               IF Truthy(app.argv.output) THEN <<app.argv.output>>
               ELSE IF Truthy(app.argv.output_dir)
               THEN <<app.argv.output_dir, "/", app.program_name, ".java">>
               ELSE IF Truthy(app.env.JAVAX_OUTPUT_DIR)
               THEN <<app.env.JAVAX_OUTPUT_DIR, "/", app.program_name, ".java">>
               ELSE <<app.program_name, ".java">>

\* the path was resolved for a command line with an explicit output path and
\* an output directory, JAVAX_OUTPUT_DIR being set as well
C16_ExplicitPathAndDirectories ==
    /\ mode = "main" /\ app.output_file # <<>>
    /\ Truthy(app.argv.output) /\ Truthy(app.argv.output_dir)
    /\ Truthy(app.env.JAVAX_OUTPUT_DIR)

\* C7: the output file is written only after parse_program and generate both
\* returned without error; when parsing raised, nothing is written, nothing is
\* compiled or run, and the process ends with exit status 1.
C7_WriteOnlyAfterParseAndGenerate ==
    mode = "main" =>
        /\ (Has(app.calls, "write_file") \/ app.files /= {})
               => (app.parse = "ok" /\ app.gen = "ok")
        /\ (app.parse \notin {"none", "ok"})
               => /\ app.files = {}
                  /\ ~Has(app.calls, "write_file")
                  /\ ~Has(app.calls, "compile")
                  /\ ~Has(app.calls, "run")
                  /\ app.pc = "exit" /\ app.exit = 1

\* parsing raised and the process has ended
C7_ParseErrorReached ==
    mode = "main" /\ app.parse \notin {"none", "ok"} /\ app.pc = "exit"

-----------------------------------------------------------------------------
(* parsers/template_parser.py and parsers/method_parser.py.                 *)
(* A Template and a Method are records; None is <<>> for a text and         *)
(* NoMethod for a method.  Cursors count lines from 0, as in the code:      *)
(* lines[i] is L[i + 1].                                                     *)

\* s.split(',') with every part stripped
RECURSIVE split_comma(_)
split_comma(s) ==
    LET k == FirstAt(s, ",", 1, Len(s))
    IN  IF k = 0 THEN <<s>> ELSE <<Take(s, k - 1)>> \o split_comma(Drop(s, k))

\* for keyword in kws: if f' {keyword} ' in line -- the first such keyword
RECURSIVE FirstKeywordIn(_, _, _)
FirstKeywordIn(line, kws, j) ==
    IF j > Len(kws) THEN 0
    ELSE IF HasInterior(line, kws[j]) THEN j
    ELSE FirstKeywordIn(line, kws, j + 1)

parse_inheritance_from_line(w) ==
    LET is_abstract ==
            \E j \in 1..Len(abstract_synonyms) : StartsWithWord(w, abstract_synonyms[j])
        l1 == IF is_abstract THEN Tail(w) ELSE w
        is_interface == StartsWithWord(l1, "interface")
        l2 == IF is_interface THEN Tail(l1) ELSE l1
        je == FirstKeywordIn(l2, inheritance_synonyms, 1)
        ke == Interior(l2, inheritance_synonyms[je])
        remainder == Drop(l2, ke)
        l3 == IF je # 0 THEN Take(l2, ke - 1) ELSE l2
        ji == FirstKeywordIn(remainder, implementation_synonyms, 1)
        ki == Interior(remainder, implementation_synonyms[ji])
        extends == IF je = 0 THEN <<>>
                   ELSE IF ji # 0 THEN Take(remainder, ki - 1)
                   ELSE remainder
        jn == FirstKeywordIn(l3, implementation_synonyms, 1)
        implements ==
            IF je # 0 /\ ji # 0 THEN split_comma(Drop(remainder, ki))
            ELSE IF extends = <<>> /\ jn # 0
            THEN split_comma(Drop(l3, Interior(l3, implementation_synonyms[jn])))
            ELSE <<>>
    IN  [is_abstract |-> is_abstract, is_interface |-> is_interface,
         extends |-> extends, implements |-> implements]

Template(name, inh) ==
    [name |-> name, template_vars |-> <<>>, instance_vars |-> <<>>,
     constructors |-> <<>>, template_methods |-> <<>>,
     instance_methods |-> <<>>, getters_setters |-> <<>>,
     is_abstract |-> inh.is_abstract, is_interface |-> inh.is_interface,
     extends |-> inh.extends, implements |-> inh.implements,
     abstract_methods |-> <<>>]

\* template=None
NoTemplate == [none |-> TRUE]

NoMethod == [none |-> TRUE]

Method(name, parameters, return_type, access, body, is_static, is_constructor) ==
    [name |-> name, parameters |-> parameters, return_type |-> return_type,
     access |-> access, body |-> body, is_static |-> is_static,
     is_constructor |-> is_constructor]

\* var_name_lower.endswith('s') and var_name_lower[:-1] == param_name_lower,
\* on the plural names of the vocabulary
Singular == [items |-> "item", names |-> "name", grades |-> "grade"]

\* _infer_type_from_name on the names of the vocabulary: the word lists are
\* looked for inside the name
InferredByWord ==
    [power |-> "double", base |-> "double", exponent |-> "int",
     value |-> "double", count |-> "int", size |-> "int", name |-> "String",
     title |-> "String", enabled |-> "boolean"]

infer_type_from_name(param_name) ==
    IF param_name \in {"a", "b", "x", "y", "z", "n", "m"} THEN <<"double">>
    ELSE IF lower(param_name) \in DOMAIN InferredByWord
    THEN <<InferredByWord[lower(param_name)]>>
    ELSE <<"String">>

\* the least element of a non-empty set of indices
Least(S) == CHOOSE k \in S : \A j \in S : k <= j

\* the variables of that name, and the ArrayLists whose name is the plural of
\* the parameter's
exact_matches(vs, param) == {k \in 1..Len(vs) : vs[k].name = param}

plural_matches(vs, param) ==
    {k \in 1..Len(vs) :
        /\ Len(vs[k].type_) >= 2 /\ Take(vs[k].type_, 2) = <<"ArrayList", "<">>
        /\ Len(vs[k].name) = 1 /\ Len(param) = 1
        /\ lower(vs[k].name[1]) \in DOMAIN Singular
        /\ Singular[lower(vs[k].name[1])] = lower(param[1])}

\* element_type = var.type_[10:-1]
element_type(type_) == SubSeq(type_, 3, Len(type_) - 1)

looked_up(vs, param, exact, plural) ==
    IF exact # {} THEN Ok(vs[Least(exact)].type_)
    ELSE IF plural # {} THEN Ok(element_type(vs[Least(plural)].type_))
    ELSE IF vs = <<>>
    THEN Ok(infer_type_from_name(IF param = <<>> THEN "" ELSE param[1]))
    ELSE Raise("PseudoJavaError")

\* _lookup_or_infer_parameter_type: the first variable of that name, else the
\* first ArrayList whose name is the plural of the parameter, else the type
\* inferred from the name when the template declares no variable
lookup_or_infer_parameter_type(param, vs) ==
    looked_up(vs, param, exact_matches(vs, param), plural_matches(vs, param))

typed_parameter(param, r) ==
    IF r.ok THEN Ok([name |-> param, type |-> r.val]) ELSE r

\* one parameter of _parse_parameters_from_declared_types
declared_parameter(param, template) ==
    IF Len(param) >= 2
    THEN Ok([name |-> Tail(param), type |-> map_type(<<param[1]>>)])
    ELSE typed_parameter(param,
             lookup_or_infer_parameter_type(
                 param, template.instance_vars \o template.template_vars))

\* one parameter of _parse_method_parameters
explicit_parameter(param) ==
    IF Len(param) >= 2
    THEN Ok([name |-> Tail(param), type |-> map_type(<<param[1]>>)])
    ELSE Raise("PseudoJavaError")

\* the list of the parameters, unless one of them raised
collected_parameters(rs) ==
    IF \E k \in 1..Len(rs) : ~rs[k].ok THEN Raise("PseudoJavaError")
    ELSE Ok([k \in 1..Len(rs) |-> rs[k].val])

each_parameter(ps, template) ==
    [k \in 1..Len(ps) |->
        IF template = NoTemplate THEN explicit_parameter(ps[k])
        ELSE declared_parameter(ps[k], template)]

\* _parse_parameters_from_declared_types, or _parse_method_parameters when
\* there is no template
parse_parameters(params_str, template) ==
    IF params_str = <<>> THEN Ok(<<>>)
    ELSE collected_parameters(each_parameter(split_comma(params_str), template))

\* ' returns ' or ' -> ' splits the signature from the return type
split_return_type(line) ==
    LET kr == Interior(line, "returns")
        ka == Interior(line, "->")
    IN  IF kr # 0
        THEN [method_part |-> Take(line, kr - 1), return_type |-> Drop(line, kr)]
        ELSE IF ka # 0
        THEN [method_part |-> Take(line, ka - 1), return_type |-> Drop(line, ka)]
        ELSE [method_part |-> line, return_type |-> <<"void">>]

\* re.match(r'(\w+)\s*\((.*?)\)', method_part)
signature_up_to(mp, kc) ==
    IF Len(mp) >= 3 /\ WordTok(mp[1]) /\ mp[2] = "(" /\ kc # 0
    THEN [ok |-> TRUE, name |-> mp[1], params |-> SubSeq(mp, 3, kc - 1)]
    ELSE [ok |-> FALSE, name |-> "", params |-> <<>>]

match_signature(mp) == signature_up_to(mp, FirstAt(mp, ")", 3, Len(mp)))

\* the access character in front of a member line
access_of(w) == IF w[1] \in AccessChars THEN w[1] ELSE ""

without_access(w) == IF w[1] \in AccessChars THEN Tail(w) ELSE w

\* the Method of a signature m with parameters ps, without its body
method_of(m, ps, return_type, access, is_static) ==
    IF ~m.ok THEN Ok(NoMethod)
    ELSE IF ~ps.ok THEN ps
    ELSE Ok(Method(m.name, ps.val, map_type(return_type), access, <<>>,
                   is_static, FALSE))

signed_method(sp, m, access, is_static, template) ==
    method_of(m, parse_parameters(m.params, template), sp.return_type, access,
              is_static)

\* _parse_regular_method up to its call of parse_method_body: the method
\* without its body, or NoMethod when the signature does not match
split_method(sp, access, is_static, template) ==
    signed_method(sp, match_signature(sp.method_part), access, is_static, template)

parse_regular_method(line, access, is_static, template) ==
    split_method(split_return_type(line), access, is_static, template)

\* parse_abstract_method: Ok(method) or the error raised; the cursor moves
\* one line on
parse_abstract_method(w, template) ==
    IF w = <<>> \/ w[1] = "//" THEN Ok(NoMethod)
    ELSE split_method(split_return_type(without_access(w)), access_of(w), FALSE,
                      template)

\* re.match(r'.*\w+\s*\([^)]*\)\s*:', line)
explicit_constructor_pattern(line) ==
    \E k \in 1..Len(line) :
        /\ k + 3 <= Len(line)
        /\ WordTok(line[k]) /\ line[k + 1] = "("
        /\ LET kc == FirstAt(line, ")", k + 2, Len(line))
           IN  kc # 0 /\ kc < Len(line) /\ line[kc + 1] = ":"

\* this.<name> = <name>; for every parameter
auto_body(parameters) ==
    [k \in 1..Len(parameters) |->
        <<"this", ".">> \o parameters[k].name \o <<"=">> \o parameters[k].name
            \o <<";">>]

constructor_of(simplified, m, ps, access, template) ==
    IF ~simplified /\ ~m.ok THEN Ok(NoMethod)
    ELSE IF ~ps.ok THEN ps
    ELSE Ok(Method(IF simplified
                   THEN (IF template = NoTemplate THEN "Constructor"
                         ELSE template.name)
                   ELSE m.name,
                   ps.val, <<"void">>, access,
                   IF simplified THEN auto_body(ps.val) ELSE <<>>, FALSE, TRUE))

matched_constructor(simplified, line, m, access, template) ==
    constructor_of(simplified, m,
                   parse_parameters(IF simplified THEN rstrip_colon(line)
                                    ELSE m.params, template),
                   access, template)

\* _parse_constructor up to its call of parse_method_body: the constructor
\* with the automatic assignments of the simplified syntax as its body
parse_constructor(line, access, template) ==
    matched_constructor(/\ Has(line, ":") /\ Last(line) # ")"
                        /\ ~explicit_constructor_pattern(line),
                        line, match_signature(rstrip_colon(line)), access, template)

\* parse_method up to the call of parse_method_body
parse_method(w, is_static, is_constructor, template) ==
    IF w = <<>> \/ w[1] = "//" THEN Ok(NoMethod)
    ELSE IF is_constructor
    THEN parse_constructor(without_access(w), access_of(w), template)
    ELSE parse_regular_method(without_access(w), access_of(w), is_static, template)

\* parse_standalone_method up to the call of parse_method_body
parse_standalone_method(w) ==
    parse_regular_method(Tail(w), "*", TRUE, NoTemplate)

\* _parse_getter_setter: <<(variable_name, access)>>, or <<>> for a skipped
\* line; the cursor moves one line on
parse_getter_setter(w) ==
    IF w = <<>> \/ w[1] = "//" THEN <<>>
    ELSE <<[name |-> without_access(w), access |-> access_of(w)]>>

\* the names of the vocabulary that hold a template synonym inside them
EmbeddedSynonym == [Designer |-> "design", TemplateDemo |-> "template"]

\* synonym.lower() in first_line.lower()
contains_synonym(w, synonym) ==
    \E k \in 1..Len(w) :
        \/ lower(w[k]) = synonym
        \/ w[k] \in DOMAIN EmbeddedSynonym /\ EmbeddedSynonym[w[k]] = synonym

\* _extract_template_keyword_from_name(template.name, lines[0])
extract_template_keyword_from_name(first_line) ==
    LET S == {j \in 1..Len(template_synonyms) :
                 contains_synonym(first_line, template_synonyms[j])}
    IN  IF S = {} THEN "template"
        ELSE template_synonyms[CHOOSE j \in S : \A k \in S : j <= k]

\* the section a method line stands in: where its Method goes, or ""
method_field(current_section, template_keyword) ==
    IF current_section = <<"constructor">> THEN "constructors"
    ELSE IF current_section \in get_static_methods_patterns(template_keyword)
    THEN "template_methods"
    ELSE IF current_section = <<"instance", "methods">> THEN "instance_methods"
    ELSE ""

\* the line is done with: the template as it now is, the cursor one line on
Kept(template, i) == Ok([template |-> template, next |-> i + 1, call |-> <<>>])

\* var, i = parse_variable(...); if var: append to the list
with_variable(template, i, is_static, r) ==
    IF ~r.ok THEN r
    ELSE IF r.val.var = NoVariable THEN Kept(template, i)
    ELSE IF is_static
    THEN Kept([template EXCEPT !.template_vars = Append(@, r.val.var)], i)
    ELSE Kept([template EXCEPT !.instance_vars = Append(@, r.val.var)], i)

\* method, i = parse_method(...): the body is still to be read
with_method(template, i, field, r) ==
    IF ~r.ok THEN r
    ELSE IF r.val = NoMethod THEN Kept(template, i)
    ELSE Ok([template |-> template, next |-> i,
             call |-> <<[method |-> r.val, field |-> field]>>])

with_abstract_method(template, i, r) ==
    IF ~r.ok THEN r
    ELSE IF r.val = NoMethod THEN Kept(template, i)
    ELSE Kept([template EXCEPT !.abstract_methods = Append(@, r.val)], i)

section_content(w, i, current_section, template, template_keyword, field) ==
    IF current_section \in get_static_vars_patterns(template_keyword)
    THEN with_variable(template, i, TRUE, parse_variable(w, i, TRUE))
    ELSE IF current_section = <<"instance", "vars">>
    THEN with_variable(template, i, FALSE, parse_variable(w, i, FALSE))
    ELSE IF field # ""
    THEN with_method(template, i, field,
                     parse_method(w, field = "template_methods",
                                  field = "constructors", template))
    ELSE IF current_section \in abstract_methods_synonyms
    THEN with_abstract_method(template, i, parse_abstract_method(w, template))
    ELSE IF current_section \in get_getter_setter_patterns
    THEN Kept([template EXCEPT !.getters_setters = @ \o parse_getter_setter(w)], i)
    ELSE Kept(template, i)

\* _parse_section_content: Ok([template, next, call]) or the error raised.
\* call is <<>>, or the method whose body parse_method_body is about to read
\* from the next line on, with the list of the template it is appended to.
parse_section_content(L, i, current_section, template, indent) ==
    IF current_section = <<>> \/ indent < 2 * IndentStep THEN Kept(template, i)
    ELSE section_content(L[i + 1].w, i, current_section, template,
                         extract_template_keyword_from_name(L[1].w),
                         method_field(current_section,
                                      extract_template_keyword_from_name(L[1].w)))

-----------------------------------------------------------------------------
(* core/parser_engine.py: parse_program, with the loop of parse_template.   *)
(* p is the state of the two loops: the cursor i, the ParsedProgram being   *)
(* built, the template being parsed and its current section.               *)

\* _analyze_program_structure: (program_name, start_idx)
analyze_program_structure(L) ==
    LET first_line == L[1].w
        found == {k \in 1..Len(L) :
                     L[k].w = <<"main">> \/ is_template_line(L[k].w)}
        k0 == CHOOSE k \in found : \A j \in found : k <= j
    IN  IF is_template_line(first_line) THEN [name |-> first_line[2], start |-> 0]
        ELSE IF StartsWithWord(first_line, "program")
        THEN [name |-> IF WordTok(first_line[2]) THEN first_line[2]
                       ELSE "DefaultProgram",
              start |-> 1]
        ELSE IF first_line = <<"main">> THEN [name |-> "MainProgram", start |-> 0]
        ELSE IF found = {} THEN [name |-> "DefaultProgram", start |-> 0]
        ELSE IF L[k0].w = <<"main">> THEN [name |-> "MainProgram", start |-> 0]
        ELSE [name |-> L[k0].w[2], start |-> 0]

\* no call of parse_method_body is under way
NoCall == [none |-> TRUE]

NewProgram ==
    [pc |-> "analyze", i |-> 0, program_name |-> "", templates |-> <<>>,
     main_method_body |-> <<>>, standalone_methods |-> <<>>,
     template |-> NoTemplate, current_section |-> <<>>, call |-> NoCall,
     java |-> <<>>, err |-> "none"]

ProgramRaised(p, kind) == [p EXCEPT !.pc = "raised", !.err = kind]

\* parse_method_body(lines, p.i + 1) is called for method, which then goes to
\* the list `field`; the caller goes on at `back`
call_body(p, method, field, back) ==
    [p EXCEPT !.pc = "body",
              !.call = [method |-> method, field |-> field, back |-> back]]

\* the line at the cursor opens a template: parse_template up to its loop
start_template(L, p) ==
    LET w == L[p.i + 1].w
    IN  [p EXCEPT !.pc = "template",
                  !.template = Template(w[2], parse_inheritance_from_line(w)),
                  !.current_section = <<>>,
                  !.i = p.i + 1]

\* parse_template returns: templates.append(template)
end_template(p) ==
    [p EXCEPT !.pc = "program",
              !.templates = Append(@, p.template),
              !.template = NoTemplate,
              !.current_section = <<>>]

\* i = self._parse_section_content(...)
after_section_content(p, r) ==
    IF ~r.ok THEN ProgramRaised(p, r.err)
    ELSE IF r.val.call # <<>>
    THEN call_body(p, r.val.call[1].method, r.val.call[1].field, "template")
    ELSE [p EXCEPT !.template = r.val.template, !.i = r.val.next]

template_line(L, p, ind, w) ==
    IF w = <<>> \/ w[1] = "//" THEN [p EXCEPT !.i = p.i + 1]
    ELSE IF /\ ind < IndentStep
            /\ (is_template_line(w) \/ w = <<"main">> \/ StartsWithWord(w, "method"))
    THEN end_template(p)
    ELSE IF Last(w) = ":" /\ ind = IndentStep
    THEN [p EXCEPT !.current_section = Take(w, Len(w) - 1), !.i = p.i + 1]
    ELSE after_section_content(
             p, parse_section_content(L, p.i, p.current_section, p.template, ind))

\* one iteration of the loop of parse_template, up to a call of
\* parse_method_body if the line is a method's
template_step(L, p) ==
    IF p.i >= Len(L) THEN end_template(p)
    ELSE template_line(L, p, L[p.i + 1].ind, L[p.i + 1].w)

\* elif line == 'main': _parse_main_method calls parse_method_body
main_step(p) == call_body(p, NoMethod, "main_method_body", "program")

after_standalone_method(p, r) ==
    IF ~r.ok THEN ProgramRaised(p, r.err)
    ELSE IF r.val = NoMethod THEN [p EXCEPT !.i = p.i + 1]
    ELSE call_body(p, r.val, "standalone_methods", "program")

\* elif line.startswith('method '): parse_standalone_method
method_step(L, p) ==
    after_standalone_method(p, parse_standalone_method(L[p.i + 1].w))

\* body_return with the caller's cursor left at the header line
body_return_at_header(p, f) ==
    LET method == [p.call.method EXCEPT !.body = @ \o f.body]
        q == [p EXCEPT !.pc = p.call.back, !.call = NoCall]
    IN  IF f.st = "raised" THEN ProgramRaised(p, f.err)
        ELSE IF p.call.field = "main_method_body"
        THEN [q EXCEPT !.main_method_body = f.body]
        ELSE IF p.call.field = "standalone_methods"
        THEN [q EXCEPT !.standalone_methods = Append(@, method)]
        ELSE [q EXCEPT !.template[p.call.field] = Append(@, method)]

\* parse_method_body has returned the frame f: the method gets its body and
\* is appended, and the caller's cursor is the one the body ended at
body_return(p, f) ==
    LET method == [p.call.method EXCEPT !.body = @ \o f.body]
        q == [p EXCEPT !.pc = p.call.back, !.i = f.i, !.call = NoCall]
    IN  IF f.st = "raised" THEN ProgramRaised(p, f.err)
        ELSE IF p.call.field = "main_method_body"
        THEN [q EXCEPT !.main_method_body = f.body]
        ELSE IF p.call.field = "standalone_methods"
        THEN [q EXCEPT !.standalone_methods = Append(@, method)]
        ELSE [q EXCEPT !.template[p.call.field] = Append(@, method)]

-----------------------------------------------------------------------------
(* generators/java_generator.py: generate.  The Java text is a sequence of  *)
(* lines, a line a sequence of lexemes; <<>> is the empty line.              *)

generate_imports ==
    << <<"import", "java.util.*", ";">>, <<"import", "java.util.Scanner", ";">> >>

has_main_in_template(template) ==
    \E k \in 1..Len(template.template_methods) :
        template.template_methods[k].name = "main"

should_merge_into_single_class(parsed_data) ==
    /\ Len(parsed_data.templates) = 1
    /\ parsed_data.templates[1].name = parsed_data.program_name
    /\ \/ parsed_data.main_method_body # <<>>
       \/ has_main_in_template(parsed_data.templates[1])

generate_variables(variables, is_static) ==
    [k \in 1..Len(variables) |->
        access_modifiers[variables[k].access]
            \o (IF is_static THEN <<"static">> ELSE <<>>)
            \o variables[k].type_ \o variables[k].name
            \o (IF variables[k].initial_value # <<>>
                THEN <<"=">> \o variables[k].initial_value ELSE <<>>)
            \o <<";">>]

\* ", ".join(f"{param_type} {param_name}" ...)
RECURSIVE parameter_list(_)
parameter_list(parameters) ==
    IF parameters = <<>> THEN <<>>
    ELSE Head(parameters).type \o Head(parameters).name
             \o (IF Len(parameters) > 1 THEN <<",">> ELSE <<>>)
             \o parameter_list(Tail(parameters))

\* _generate_method(method, class_name); class_name "" is None
generate_method(method, class_name) ==
    LET signature ==
            IF method.is_constructor
            THEN access_modifiers[method.access]
                     \o <<IF class_name # "" THEN class_name ELSE method.name>>
            ELSE access_modifiers[method.access]
                     \o (IF method.is_static THEN <<"static">> ELSE <<>>)
                     \o method.return_type \o <<method.name>>
    IN  << signature \o <<"(">> \o parameter_list(method.parameters)
               \o <<")", "{">> >>
            \o method.body
            \o << <<"}">> >>

generate_abstract_method(method) ==
    << access_modifiers[method.access] \o <<"abstract">> \o method.return_type
           \o <<method.name, "(">> \o parameter_list(method.parameters)
           \o <<")", ";">> >>

generate_main_method(main_body) ==
    << <<"public", "static", "void", "main", "(", "String[]", "args", ")", "{">> >>
        \o main_body
        \o << <<"}">> >>

is_utility_template(template) ==
    /\ template.instance_vars = <<>>
    /\ template.constructors = <<>>
    /\ template.getters_setters = <<>>
    /\ template.instance_methods = <<>>
    /\ template.template_methods # <<>>

\* _find_variable: <<var>>, or <<>> for None
find_variable(template, var_name) ==
    LET vs == template.instance_vars \o template.template_vars
        S == {k \in 1..Len(vs) : vs[k].name = var_name}
    IN  IF S = {} THEN <<>> ELSE <<vs[CHOOSE k \in S : \A j \in S : k <= j]>>

build_class_declaration(template) ==
    (IF template.is_interface THEN <<"interface">>
     ELSE IF template.is_abstract THEN <<"abstract", "class">>
     ELSE <<"class">>)
        \o <<template.name>>
        \o (IF template.extends # <<>> THEN <<"extends">> \o template.extends
            ELSE <<>>)
        \o (IF template.implements # <<>>
            THEN <<"implements">>
                     \o Flatten([k \in 1..Len(template.implements) |->
                                    template.implements[k]
                                        \o (IF k < Len(template.implements)
                                            THEN <<",">> ELSE <<>>)])
            ELSE <<>>)
        \o <<"{">>

\* the blocks of a class body, each followed by an empty line
variables_block(variables, is_static) ==
    IF variables = <<>> THEN <<>>
    ELSE generate_variables(variables, is_static) \o << <<>> >>

methods_block(methods, class_name) ==
    Flatten([k \in 1..Len(methods) |->
                generate_method(methods[k], class_name) \o << <<>> >>])

abstract_methods_block(methods) ==
    Flatten([k \in 1..Len(methods) |->
                generate_abstract_method(methods[k]) \o << <<>> >>])

accessors_of(found, access) ==
    IF found = <<>> THEN <<>>
    ELSE generate_getter_setter(
             [name |-> found[1].name[1], type_ |-> found[1].type_], access)
             \o << <<>> >>

getters_setters_block(template) ==
    Flatten([k \in 1..Len(template.getters_setters) |->
                accessors_of(find_variable(template, template.getters_setters[k].name),
                             template.getters_setters[k].access)])

generate_single_class_with_main(parsed_data) ==
    LET template == parsed_data.templates[1]
    IN  << <<"public", "class", template.name, "{">> >>
            \o variables_block(template.template_vars, TRUE)
            \o variables_block(template.instance_vars, FALSE)
            \o methods_block(template.constructors, template.name)
            \o methods_block(template.template_methods, "")
            \o methods_block(template.instance_methods, "")
            \o getters_setters_block(template)
            \o methods_block(parsed_data.standalone_methods, "")
            \o generate_main_method(parsed_data.main_method_body)
            \o << <<"}">> >>

generate_single_template_class(template) ==
    << build_class_declaration(template) >>
        \o (IF template.is_interface THEN <<>>
            ELSE variables_block(template.template_vars, TRUE)
                     \o variables_block(template.instance_vars, FALSE)
                     \o methods_block(template.constructors, template.name))
        \o methods_block(template.template_methods, "")
        \o methods_block(template.instance_methods, "")
        \o abstract_methods_block(template.abstract_methods)
        \o (IF template.is_interface THEN <<>> ELSE getters_setters_block(template))
        \o << <<"}">> >>

\* a generator that moves every utility template into the program's class,
\* whatever its name
generate_merging_every_utility_template(parsed_data) ==
    LET ts == parsed_data.templates
        Utility(k) == is_utility_template(ts[k])
        main_class_methods ==
            Flatten([k \in 1..Len(ts) |->
                        IF Utility(k) THEN ts[k].template_methods ELSE <<>>])
                \o parsed_data.standalone_methods
    IN  << <<"public", "class", parsed_data.program_name, "{">> >>
            \o methods_block(main_class_methods, "")
            \o generate_main_method(parsed_data.main_method_body)
            \o << <<"}">>, <<>> >>
            \o Flatten([k \in 1..Len(ts) |->
                           IF Utility(k) THEN <<>>
                           ELSE generate_single_template_class(ts[k]) \o << <<>> >>])

generate_main_class_with_separate_templates(parsed_data) ==
    LET ts == parsed_data.templates
        Utility(k) == is_utility_template(ts[k]) /\ ts[k].name = parsed_data.program_name
        main_class_methods ==
            Flatten([k \in 1..Len(ts) |->
                        IF Utility(k) THEN ts[k].template_methods ELSE <<>>])
                \o parsed_data.standalone_methods
    IN  << <<"public", "class", parsed_data.program_name, "{">> >>
            \o methods_block(main_class_methods, "")
            \o generate_main_method(parsed_data.main_method_body)
            \o << <<"}">>, <<>> >>
            \o Flatten([k \in 1..Len(ts) |->
                           IF Utility(k) THEN <<>>
                           ELSE generate_single_template_class(ts[k]) \o << <<>> >>])

generate_standalone_methods_class(parsed_data) ==
    << <<"public", "class", parsed_data.program_name, "{">> >>
        \o methods_block(parsed_data.standalone_methods, "")
        \o << <<"}">> >>

generate(parsed_data) ==
    generate_imports \o << <<>> >>
        \o (IF should_merge_into_single_class(parsed_data)
            THEN generate_single_class_with_main(parsed_data)
            ELSE IF parsed_data.main_method_body # <<>>
            THEN generate_main_class_with_separate_templates(parsed_data)
            ELSE IF Len(parsed_data.templates) = 1
            THEN generate_single_template_class(parsed_data.templates[1])
            ELSE generate_standalone_methods_class(parsed_data))

-----------------------------------------------------------------------------
(* The programs parse_program and generate are run on: perhaps a `program`  *)
(* line, a template header, at most MaxSections sections, perhaps a second  *)
(* template, perhaps a `main` block or a standalone method.  The text is as *)
(* source_code.strip() leaves it: the first line starts at column 0.        *)

MaxSections == 2

Line(ind, w) == [ind |-> ind, w |-> w]

PlainHeaders == {<<"template", "Car">>, <<"design", "Car">>, <<"class", "Car">>}

InheritingHeaders ==
    {<<"template", "Car", "extends", "Vehicle">>,
     <<"class", "Car", "implements", "Drivable", ",", "Comparable">>,
     <<"blueprint", "Car", "is-a", "Vehicle", "can", "Drivable">>}

AbstractHeaders == {<<"abstract", "template", "Animal">>, <<"contract", "design", "Animal">>}

InterfaceHeaders == {<<"interface", "Flyable">>}

\* the template synonym a header line was written with
KeywordOf(h) ==
    IF h[1] \in Range(template_synonyms) THEN h[1]
    ELSE IF h[2] \in Range(template_synonyms) THEN h[2]
    ELSE "template"

\* the sections a template may hold, written with the template keyword K
SectionBlocks(K) ==
    { << Line(IndentStep, <<K, "vars", ":">>),
         Line(2 * IndentStep, <<"totalCars", "as", "int", "=", "0">>) >>,
      << Line(IndentStep, <<"instance", "vars", ":">>),
         Line(2 * IndentStep, <<"-", "name", "as", "string">>) >>,
      << Line(IndentStep, <<"constructor", ":">>),
         Line(2 * IndentStep, <<"name", ":">>) >>,
      << Line(IndentStep, <<"constructor", ":">>),
         Line(2 * IndentStep, <<"name", ":">>),
         Line(2 * IndentStep, <<"name", ",", "count", ":">>) >>,
      << Line(IndentStep, <<"constructor", ":">>),
         Line(2 * IndentStep, <<"string", "name", ",", "int", "count", ":">>),
         Line(3 * IndentStep, <<"print", "\"hi\"">>),
         Line(3 * IndentStep, <<"x", "=", "1">>) >>,
      << Line(IndentStep, <<K, "methods", ":">>),
         Line(2 * IndentStep, <<"*", "describe", "(", ")", "returns", "string">>),
         Line(3 * IndentStep, <<"return", "x">>) >>,
      << Line(IndentStep, <<K, "methods", ":">>),
         Line(2 * IndentStep, <<"*", "main", "(", ")">>),
         Line(3 * IndentStep, <<"print", "\"hi\"">>) >>,
      << Line(IndentStep, <<"instance", "methods", ":">>),
         Line(2 * IndentStep, <<"rename", "(", "name", ")">>),
         Line(3 * IndentStep, <<"print", "\"hi\"">>) >>,
      << Line(IndentStep, <<"abstract", "methods", ":">>),
         Line(2 * IndentStep, <<"speak", "(", ")", "returns", "string">>),
         Line(2 * IndentStep, <<"*", "move", "(", "int", "steps", ")">>) >>,
      << Line(IndentStep, <<"getters", "setters", ":">>),
         Line(2 * IndentStep, <<"*", "name">>),
         Line(2 * IndentStep, <<"totalCars">>) >> }

SectionSeqs(K) == UNION {[1..n -> SectionBlocks(K)] : n \in 0..MaxSections}

NoLines == <<>>

Prologues ==
    {<<Line(0, <<"program", "Garage">>)>>, <<Line(0, <<"program", "Designer">>)>>,
     <<Line(0, <<"program", "Car">>)>>}

SecondTemplate ==
    << Line(0, <<"blueprint", "Engine">>),
       Line(IndentStep, <<"blueprint", "vars", ":">>),
       Line(2 * IndentStep, <<"power", "as", "int", "=", "0">>) >>

\* a second template that holds only a static method
UtilityTemplate ==
    << Line(0, <<"template", "Tools">>),
       Line(IndentStep, <<"template", "methods", ":">>),
       Line(2 * IndentStep, <<"*", "twice", "(", "int", "n", ")", "returns", "int">>),
       Line(3 * IndentStep, <<"return", "x">>) >>

MainBlock == << Line(0, <<"main">>), Line(IndentStep, <<"x", "=", "1">>) >>

MethodBlock ==
    << Line(0, <<"method", "add", "(", "int", "a", ",", "int", "b", ")", "->", "int">>),
       Line(IndentStep, <<"return", "x">>) >>

\* a standalone method with a parameter written as a bare name
BareMethodBlock ==
    << Line(0, <<"method", "greet", "(", "title", ",", "int", "count", ")">>),
       Line(IndentStep, <<"print", "\"hi\"">>) >>

\* what stands around the sections: (prologue, header, second template, end)
Contexts ==
    {<<NoLines, h, NoLines, e>> :
        h \in PlainHeaders \cup InheritingHeaders \cup AbstractHeaders
                 \cup InterfaceHeaders,
        e \in {NoLines, MainBlock}}
    \cup {<<p, h, NoLines, e>> :
            p \in Prologues, h \in PlainHeaders, e \in {NoLines, MainBlock}}
    \cup {<<NoLines, <<"template", "Car">>, SecondTemplate, e>> :
            e \in {NoLines, MainBlock, MethodBlock}}
    \cup {<<NoLines, <<"template", "Car">>, UtilityTemplate, MainBlock>>}
    \cup {<<NoLines, <<"design", "Car">>, NoLines, e>> :
            e \in {MethodBlock, BareMethodBlock}}

\* the headers `<synonym> Dog <inheritance synonym> Animal <implementation
\* synonym> <interfaces>`, in every spelling
FullHeaders ==
    {<<t, "Dog", e, "Animal", i>> \o is :
        t \in Range(template_synonyms), e \in Range(inheritance_synonyms),
        i \in Range(implementation_synonyms),
        is \in {<<"Flyable">>, <<"Flyable", ",", "Pet">>}}

\* a source that is one block under such a header, with at most one section
InheritingPrograms ==
    UNION {{<<Line(0, h)>> \o Flatten(secs) :
               secs \in UNION {[1..n -> SectionBlocks(h[1])] : n \in 0..1}} :
              h \in FullHeaders}

Programs ==
    UNION {{c[1] \o <<Line(0, c[2])>> \o Flatten(secs) \o c[3] \o c[4] :
               secs \in SectionSeqs(KeywordOf(c[2]))} : c \in Contexts}
        \cup InheritingPrograms

InitProg ==
    /\ mode = "prog"
    /\ lines \in Programs
    /\ prog = NewProgram
    /\ pb = NewFrame(0)
    /\ stmt = Idle /\ vin = Idle /\ acc = Idle /\ app = Idle
    /\ gui = Idle

\* the frame of a call of parse_method_body that starts with this step
CalledFrame == IF prog'.pc = "body" THEN NewFrame(prog'.i + 1) ELSE pb

\* program_name, start_idx = self._analyze_program_structure(lines)
AnalyzeProgramStructure ==
    /\ mode = "prog" /\ prog.pc = "analyze"
    /\ LET r == analyze_program_structure(lines)
       IN  prog' = [prog EXCEPT !.pc = "program", !.program_name = r.name,
                                !.i = r.start]
    /\ UNCHANGED <<mode, lines, pb, stmt, vin, acc, app, gui>>

\* the line at the cursor of parse_program
AtLine == lines[prog.i + 1].w

InProgramLoop == mode = "prog" /\ prog.pc = "program" /\ prog.i < Len(lines)

StartTemplate ==
    /\ InProgramLoop
    /\ is_template_line(AtLine)
    /\ prog' = start_template(lines, prog)
    /\ UNCHANGED <<mode, lines, pb, stmt, vin, acc, app, gui>>

TemplateStep ==
    /\ mode = "prog" /\ prog.pc = "template"
    /\ prog' = template_step(lines, prog)
    /\ pb' = CalledFrame
    /\ UNCHANGED <<mode, lines, stmt, vin, acc, app, gui>>

ParseMainMethod ==
    /\ InProgramLoop
    /\ ~is_template_line(AtLine)
    /\ AtLine = <<"main">>
    /\ prog' = main_step(prog)
    /\ pb' = CalledFrame
    /\ UNCHANGED <<mode, lines, stmt, vin, acc, app, gui>>

ParseStandaloneMethod ==
    /\ InProgramLoop
    /\ ~is_template_line(AtLine)
    /\ StartsWithWord(AtLine, "method")
    /\ prog' = method_step(lines, prog)
    /\ pb' = CalledFrame
    /\ UNCHANGED <<mode, lines, stmt, vin, acc, app, gui>>

\* one iteration of the loop of parse_method_body, called from the parsers
MethodBodyStep ==
    /\ mode = "prog" /\ prog.pc = "body"
    /\ pb.st = "run"
    /\ pb' = BodyStep(lines, pb)
    /\ UNCHANGED <<mode, lines, prog, stmt, vin, acc, app, gui>>

\* parse_method_body returns to its caller, or its error goes up
MethodBodyReturn ==
    /\ mode = "prog" /\ prog.pc = "body"
    /\ pb.st # "run"
    /\ prog' = body_return(prog, pb)
    /\ UNCHANGED <<mode, lines, pb, stmt, vin, acc, app, gui>>

SkipLine ==
    /\ InProgramLoop
    /\ ~is_template_line(AtLine)
    /\ AtLine # <<"main">>
    /\ ~StartsWithWord(AtLine, "method")
    /\ prog' = [prog EXCEPT !.i = prog.i + 1]
    /\ UNCHANGED <<mode, lines, pb, stmt, vin, acc, app, gui>>

\* parse_program returns and generate(parsed_data) runs
GenerateJava ==
    /\ mode = "prog" /\ prog.pc = "program" /\ prog.i >= Len(lines)
    /\ prog' = [prog EXCEPT !.pc = "done", !.java = generate(prog)]
    /\ UNCHANGED <<mode, lines, pb, stmt, vin, acc, app, gui>>

NextProg ==
    \/ AnalyzeProgramStructure
    \/ StartTemplate
    \/ TemplateStep
    \/ ParseMainMethod
    \/ ParseStandaloneMethod
    \/ MethodBodyStep
    \/ MethodBodyReturn
    \/ SkipLine
    \/ GenerateJava

SpecProg == InitProg /\ [][NextProg]_vars

\* pat stands in the line, lexeme by lexeme
ContainsLexemes(line, pat) ==
    \E k \in 0..(Len(line) - Len(pat)) : SubSeq(line, k + 1, k + Len(pat)) = pat

\* some line of the Java text holds pat
JavaContains(java, pat) == \E j \in 1..Len(java) : ContainsLexemes(java[j], pat)

\* the top-level lines that open a block with an abstract synonym, a template
\* synonym and a name
AbstractHeaderLines(L) ==
    {h \in 1..Len(L) :
        /\ L[h].ind = 0 /\ Len(L[h].w) = 3
        /\ L[h].w[1] \in Range(abstract_synonyms)
        /\ L[h].w[2] \in Range(template_synonyms)}

InterfaceHeaderLines(L) ==
    {h \in 1..Len(L) :
        L[h].ind = 0 /\ Len(L[h].w) = 2 /\ L[h].w[1] = "interface"}

\* the lines under the section header `section` of the block opened at line h
SectionLines(L, h, section) ==
    {k \in (h + 2)..Len(L) :
        \E s \in (h + 1)..(k - 1) :
            /\ L[s] = Line(IndentStep, section \o <<":">>)
            /\ \A j \in (h + 1)..s : L[j].ind > 0
            /\ \A j \in (s + 1)..k : L[j].ind = 2 * IndentStep}

\* `abstract <ReturnType> <name>(<params>);` for the method declared by w
AbstractDeclaration(w) ==
    LET m == parse_abstract_method(w, NoTemplate).val
    IN  <<"abstract">> \o m.return_type \o <<m.name, "(">>
            \o parameter_list(m.parameters) \o <<")", ";">>

\* C3: a block headed by an abstract synonym, a template synonym and a name N,
\* with an abstract-methods section, comes out as text that holds
\* `abstract class N` and, for each abstract method, the bodiless declaration
\* `abstract <ReturnType> <name>(<params>);`.
C3_AbstractClass ==
    (mode = "prog" /\ prog.pc = "done")
        => \A h \in AbstractHeaderLines(lines) :
             SectionLines(lines, h, <<"abstract", "methods">>) # {}
                 => /\ JavaContains(prog.java, <<"abstract", "class", lines[h].w[3]>>)
                    /\ \A k \in SectionLines(lines, h, <<"abstract", "methods">>) :
                         JavaContains(prog.java, AbstractDeclaration(lines[k].w))

\* a field declaration, or the constructor of N
FieldOrConstructorLine(line, N) ==
    \/ ContainsLexemes(line, <<N, "(">>)
    \/ line # <<>> /\ Last(line) = ";" /\ line[1] # "import" /\ ~Has(line, "(")

\* C4: a source that is one block headed `interface N` with an abstract-methods
\* section comes out as text that holds `interface N`, one
\* `abstract <ReturnType> <name>(..);` line per abstract method, and no field or
\* constructor line.
C4_Interface ==
    (mode = "prog" /\ prog.pc = "done" /\ InterfaceHeaderLines(lines) = {1})
        => LET methods == SectionLines(lines, 1, <<"abstract", "methods">>)
           IN  (methods # {} /\ Len(lines) = 2 + Cardinality(methods))
                 => /\ JavaContains(prog.java, <<"interface", lines[1].w[2]>>)
                    /\ \A k \in methods :
                         JavaContains(prog.java, AbstractDeclaration(lines[k].w))
                    /\ \A j \in 1..Len(prog.java) :
                         ~FieldOrConstructorLine(prog.java[j], lines[1].w[2])

\* the top-level lines that open a block with a template synonym and a name
TemplateHeaderLines(L) ==
    {h \in 1..Len(L) : L[h].ind = 0 /\ is_template_line(L[h].w)}

\* the templates parsed under the name N
TemplatesNamed(N) ==
    {prog.templates[t] : t \in {u \in 1..Len(prog.templates) : prog.templates[u].name = N}}

\* C5: wherever a block stands in the file, the declarations under its
\* `<K> vars:` and `<K> methods:` headers, K being the synonym that opened the
\* block, become the static variables and the static methods of its template.
C5_KeywordSections ==
    (mode = "prog" /\ prog.pc = "done")
        => \A h \in TemplateHeaderLines(lines) :
             LET K == lines[h].w[1]
                 N == lines[h].w[2]
             IN  /\ SectionLines(lines, h, <<K, "vars">>) # {}
                       => \E t \in TemplatesNamed(N) : t.template_vars # <<>>
                 /\ SectionLines(lines, h, <<K, "methods">>) # {}
                       => \E t \in TemplatesNamed(N) : t.template_methods # <<>>

\* some template parsed so far holds a static method named main
MainInSomeTemplate ==
    \E t \in 1..Len(prog.templates) : has_main_in_template(prog.templates[t])

\* C11: once a parsed template holds a static method named main, no later
\* step of parse_program gives the program a main body: a top-level `main`
\* section after that template is not parsed into main_method_body.
C11_NoMainAfterTemplateMain ==
    [][(mode = "prog" /\ prog.pc \in {"program", "body"} /\ MainInSomeTemplate)
           => prog'.main_method_body = prog.main_method_body]_vars

\* the top-level `method f(p1, ..., pn)` lines with a bare name among p1..pn
BareParameterMethodLines(L) ==
    {k \in 1..Len(L) :
        /\ L[k].ind = 0 /\ StartsWithWord(L[k].w, "method")
        /\ LET m == match_signature(split_return_type(Tail(L[k].w)).method_part)
           IN  m.ok /\ \E j \in 1..Len(split_comma(m.params)) :
                          Len(split_comma(m.params)[j]) = 1}

\* the method has the parameters ps, each bare name typed by the name-pattern
\* table (String when no pattern matches)
BareNamesInferred(method, ps) ==
    /\ Len(method.parameters) = Len(ps)
    /\ \A j \in 1..Len(ps) :
          Len(ps[j]) = 1
              => /\ method.parameters[j].name = ps[j]
                 /\ method.parameters[j].type = infer_type_from_name(ps[j][1])

\* C12: parsing a free-standing `method f(p1, ..., pn)` with a bare name among
\* its parameters never fails, and the program gets a public static method f
\* whose bare parameters have the type inferred from their name.
C12_BareParametersInferred ==
    mode = "prog"
        => \A k \in BareParameterMethodLines(lines) :
             LET m == match_signature(split_return_type(Tail(lines[k].w)).method_part)
             IN  /\ ~(prog.pc = "raised" /\ prog.i = k - 1)
                 /\ prog.pc = "done"
                       => \E j \in 1..Len(prog.standalone_methods) :
                            /\ prog.standalone_methods[j].name = m.name
                            /\ prog.standalone_methods[j].is_static
                            /\ prog.standalone_methods[j].access = "*"
                            /\ BareNamesInferred(prog.standalone_methods[j],
                                                 split_comma(m.params))

\* the sugar-form constructor headers `p1, ..., pn:` of the source: the lines
\* under a `constructor:` section header of a template block that end in a
\* colon and have no parenthesis
SugarHeaders(L) ==
    {k \in 2..Len(L) :
        /\ L[k].ind = 2 * IndentStep
        /\ Last(L[k].w) = ":" /\ ~Has(L[k].w, "(")
        /\ \E s \in 1..(k - 1) :
              /\ L[s] = Line(IndentStep, <<"constructor", ":">>)
              /\ \A j \in (s + 1)..k : L[j].ind >= 2 * IndentStep
        /\ \E h \in 1..(k - 1) :
              /\ L[h].ind = 0 /\ is_template_line(L[h].w)
              /\ \A j \in (h + 1)..k : L[j].ind > 0}

\* the name of the template the line k stands in
OwnerOf(L, k) ==
    LET hs == {h \in 1..k : L[h].ind = 0 /\ is_template_line(L[h].w)}
    IN  L[CHOOSE h \in hs : \A j \in hs : j <= h].w[2]

\* the names p1, ..., pn of a sugar header, each perhaps written after a type
SugarNames(w) ==
    IF rstrip_colon(w) = <<>> THEN <<>>
    ELSE [j \in 1..Len(split_comma(rstrip_colon(w))) |->
             LET q == split_comma(rstrip_colon(w))[j]
             IN  IF Len(q) >= 2 THEN Tail(q) ELSE q]

\* the lines the user wrote beneath the header at line k: the deeper lines
\* that follow it
RECURSIVE UserLines(_, _)
UserLines(L, k) ==
    IF k + 1 > Len(L) \/ L[k + 1].ind <= 2 * IndentStep THEN <<>>
    ELSE <<L[k + 1].w>> \o UserLines(L, k + 1)

\* this.p = p; for each name, then the converted statements
SugarBody(names, user) ==
    [j \in 1..Len(names) |->
        <<"this", ".">> \o names[j] \o <<"=">> \o names[j] \o <<";">>]
        \o [j \in 1..Len(user) |-> convert_statement_to_java(user[j]).val]

\* C13: every sugar-form constructor header `p1, ..., pn:` of a template N
\* gives N a constructor that is not static, whose body is the n assignments
\* `this.pi = pi;` in order followed by the converted lines written beneath
\* the header, and that is emitted under the name N.
C13_SugarConstructorBody ==
    (mode = "prog" /\ prog.pc = "done")
        => \A k \in SugarHeaders(lines) :
             /\ \E t \in TemplatesNamed(OwnerOf(lines, k)) :
                   \E c \in 1..Len(t.constructors) :
                       /\ t.constructors[c].is_constructor
                       /\ ~t.constructors[c].is_static
                       /\ Len(t.constructors[c].parameters) = Len(SugarNames(lines[k].w))
                       /\ \A j \in 1..Len(t.constructors[c].parameters) :
                             t.constructors[c].parameters[j].name = SugarNames(lines[k].w)[j]
                       /\ t.constructors[c].body
                              = SugarBody(SugarNames(lines[k].w), UserLines(lines, k))
             /\ JavaContains(prog.java, <<OwnerOf(lines, k), "(">>)

\* the line that opens the program's own class
ProgramClassLine == <<"public", "class", prog.program_name, "{">>

\* the line stands in the class opened by `header`, which is the program's
\* class or a class that comes after it
InClass(java, header, line) ==
    \E c \in 1..Len(java) : \E j \in (c + 1)..Len(java) :
        /\ java[c] = header /\ java[j] = line
        /\ \A k \in (c + 1)..j : ~Has(java[k], "class")
        /\ \E p \in 1..c : java[p] = ProgramClassLine

\* the first line of the Java text of each static method of the template
SignaturesOf(template) ==
    {Head(generate_method(template.template_methods[m], "")) :
        m \in 1..Len(template.template_methods)}

\* the utility templates of the parsed program
UtilityTemplates ==
    {prog.templates[t] :
        t \in {u \in 1..Len(prog.templates) : is_utility_template(prog.templates[u])}}

IsFullHeader(w) ==
    /\ Len(w) >= 6
    /\ w[1] \in Range(template_synonyms) /\ w[3] \in Range(inheritance_synonyms)
    /\ w[5] \in Range(implementation_synonyms)

\* C15: a source that is one block headed `<synonym> N <inheritance synonym> E
\* <implementation synonym> I1, ..., Ik`, with no main section, comes out with
\* the class header line `class N extends E implements I1, ..., Ik {` and no
\* other class header.
C15_InheritanceHeader ==
    (/\ mode = "prog" /\ prog.pc = "done"
     /\ IsFullHeader(lines[1].w)
     /\ \A k \in 2..Len(lines) : lines[k].ind > 0)
        => LET w == lines[1].w
               header == <<"class", w[2], "extends", w[4], "implements">>
                             \o SubSeq(w, 6, Len(w)) \o <<"{">>
           IN  /\ \E j \in 1..Len(prog.java) : prog.java[j] = header
               /\ \A j \in 1..Len(prog.java) :
                     Has(prog.java[j], "class") => prog.java[j] = header

-----------------------------------------------------------------------------
(* The version-control front end, javax/bin/git_gui.py.                     *)
(* Text the front end reads character by character (a line of the status    *)
(* output, the commit message) is a sequence of one-character strings.      *)

\* the characters git writes in the two columns of a short-status code
StatusChars == {" ", "M", "A", "D", "R", "?", "U", "C"}

StatusCodes == {<<x, y>> : x \in StatusChars, y \in StatusChars}

StatusResult(label, tag) == [label |-> label, tag |-> tag]

\* a resolution that tests the second column for M before the first
parse_status_code_second_column_first(code) ==
    IF code[2] = "M" THEN StatusResult(<<"Modified">>, "modified")
    ELSE IF code[1] = "M" THEN StatusResult(<<"Modified", "(Staged)">>, "staged")
    ELSE IF code = <<"A", " ">> THEN StatusResult(<<"Added", "(Staged)">>, "staged")
    ELSE IF code = <<"?", "?">> THEN StatusResult(<<"Untracked">>, "untracked")
    ELSE IF code[1] = "D" THEN StatusResult(<<"Deleted", "(Staged)">>, "staged")
    ELSE IF code[2] = "D" THEN StatusResult(<<"Deleted">>, "deleted")
    ELSE IF code = <<"R", " ">> THEN StatusResult(<<"Renamed", "(Staged)">>, "staged")
    ELSE IF code[2] = "R" THEN StatusResult(<<"Renamed">>, "modified")
    ELSE StatusResult(<<"Status:">> \o code, "None")

\* GitGUI.parse_status_code: the label, as its words, and the colour tag
parse_status_code(code) ==
    IF code[1] = "M" THEN StatusResult(<<"Modified", "(Staged)">>, "staged")
    ELSE IF code[2] = "M" THEN StatusResult(<<"Modified">>, "modified")
    ELSE IF code = <<"A", " ">> THEN StatusResult(<<"Added", "(Staged)">>, "staged")
    ELSE IF code = <<"?", "?">> THEN StatusResult(<<"Untracked">>, "untracked")
    ELSE IF code[1] = "D" THEN StatusResult(<<"Deleted", "(Staged)">>, "staged")
    ELSE IF code[2] = "D" THEN StatusResult(<<"Deleted">>, "deleted")
    ELSE IF code = <<"R", " ">> THEN StatusResult(<<"Renamed", "(Staged)">>, "staged")
    ELSE IF code[2] = "R" THEN StatusResult(<<"Renamed">>, "modified")
    ELSE StatusResult(<<"Status:">> \o code, "None")

InitStatus ==
    /\ mode = "status"
    /\ gui \in {[st |-> "status", code |-> c, done |-> FALSE,
                 result |-> StatusResult(<<>>, "None")] : c \in StatusCodes}
    /\ lines = <<>>
    /\ pb = Idle /\ stmt = Idle /\ vin = Idle /\ prog = Idle /\ acc = Idle
    /\ app = Idle

ParseStatusCode ==
    /\ mode = "status" /\ ~gui.done
    /\ gui' = [gui EXCEPT !.done = TRUE, !.result = parse_status_code(gui.code)]
    /\ UNCHANGED <<mode, lines, pb, stmt, vin, prog, acc, app>>

SpecStatus == InitStatus /\ [][ParseStatusCode]_vars

\* the status table of the wire format, in its stated order: a row matches a
\* code whose first column is in c1 and whose second column is in c2
StatusTable ==
    << [c1 |-> {"M"}, c2 |-> StatusChars, label |-> <<"Modified", "(Staged)">>, tag |-> "staged"],
       [c1 |-> StatusChars, c2 |-> {"M"}, label |-> <<"Modified">>, tag |-> "modified"],
       [c1 |-> {"A"}, c2 |-> {" "}, label |-> <<"Added", "(Staged)">>, tag |-> "staged"],
       [c1 |-> {"?"}, c2 |-> {"?"}, label |-> <<"Untracked">>, tag |-> "untracked"],
       [c1 |-> {"D"}, c2 |-> StatusChars, label |-> <<"Deleted", "(Staged)">>, tag |-> "staged"],
       [c1 |-> StatusChars, c2 |-> {"D"}, label |-> <<"Deleted">>, tag |-> "deleted"],
       [c1 |-> {"R"}, c2 |-> {" "}, label |-> <<"Renamed", "(Staged)">>, tag |-> "staged"],
       [c1 |-> StatusChars, c2 |-> {"R"}, label |-> <<"Renamed">>, tag |-> "modified"] >>

RowMatches(row, code) == code[1] \in row.c1 /\ code[2] \in row.c2

MatchingRows(code) ==
    {k \in 1..Len(StatusTable) : RowMatches(StatusTable[k], code)}

FirstMatchingRow(code) ==
    CHOOSE k \in MatchingRows(code) : \A j \in MatchingRows(code) : k <= j

TableResult(code) ==
    IF MatchingRows(code) = {}
    THEN StatusResult(<<"Status:", code[1], code[2]>>, "None")
    ELSE StatusResult(StatusTable[FirstMatchingRow(code)].label,
                      StatusTable[FirstMatchingRow(code)].tag)

\* C18: for every two-character status code, parse_status_code returns the
\* label and the colour tag of the first row of the status table that the
\* code matches, and `Status: <code>` with no tag when no row matches; a code
\* whose first character is M is Modified (Staged)/staged whatever follows.
C18_StatusTablePrecedence ==
    (mode = "status" /\ gui.done) =>
        /\ gui.result = TableResult(gui.code)
        /\ gui.code[1] = "M" =>
               gui.result = StatusResult(<<"Modified", "(Staged)">>, "staged")

\* a code that matches two rows of the table (first column M, second column
\* D) has been resolved
C18_StagedModifiedOverDeleted ==
    /\ mode = "status" /\ gui.done
    /\ gui.code = <<"M", "D">>
    /\ Cardinality(MatchingRows(gui.code)) > 1
    /\ gui.result.tag = "staged"

-----------------------------------------------------------------------------
(* The handlers of the front end.  One action is one handler call, from the *)
(* click to the handler's return.  gui.events lists, in order, what the     *)
(* handler did that the outside can see: the subprocesses run_git_command   *)
(* started and the calls of refresh_status.  What git answers is drawn      *)
(* from small sets.                                                         *)

Whitespace == {" ", "\n"}

RECURSIVE lstrip(_)
lstrip(s) ==
    IF s # <<>> /\ Head(s) \in Whitespace THEN lstrip(Tail(s)) ELSE s

RECURSIVE rstrip(_)
rstrip(s) ==
    IF s # <<>> /\ Last(s) \in Whitespace
    THEN rstrip(Take(s, Len(s) - 1)) ELSE s

\* str.strip()
strip(s) == rstrip(lstrip(s))

\* str.split('\n'): cur is the piece being read
RECURSIVE SplitFrom(_, _)
SplitFrom(s, cur) ==
    IF s = <<>> THEN <<cur>>
    ELSE IF Head(s) = "\n" THEN <<cur>> \o SplitFrom(Tail(s), <<>>)
    ELSE SplitFrom(Tail(s), Append(cur, Head(s)))

split_lines(s) == SplitFrom(s, <<>>)

\* what git may write on standard error
NoError == ""
Warning == "warning: LF will be replaced by CRLF"
Fatal == "fatal: pathspec did not match any files"
NotARepository == "fatal: not a git repository"
NoRepositoryText == "No repository selected or path doesn't exist"
ExceptionText == "[Errno 12] Cannot allocate memory"

\* "fatal:" in stderr
HasFatal(stderr) == stderr \in {Fatal, NotARepository}

\* "not a git repository" in stderr.lower()
HasNotARepository(stderr) == stderr = NotARepository

\* the answer of one subprocess: none is "subprocess.run raised"
Answer(none, stdout, stderr) ==
    [none |-> none, stdout |-> stdout, stderr |-> stderr]

\* answers to add, reset, checkout and push
CommandAnswers ==
    {Answer(FALSE, "", e) : e \in {NoError, Warning, Fatal}}
    \cup {Answer(TRUE, "", ExceptionText)}

NothingToCommit == "nothing to commit, working tree clean"

CommitAnswers ==
    {Answer(FALSE, "[main 1a2b3c4] fix", NoError),
     Answer(FALSE, NothingToCommit, NoError),
     Answer(FALSE, "", Fatal),
     Answer(TRUE, "", ExceptionText)}

\* the output of git status --porcelain: each line ends with a newline
StatusOutputs ==
    { <<>>,
      <<" ", "M", " ", "a", "\n">>,
      <<"M", " ", " ", "a", "\n", "?", "?", " ", "b", "\n">>,
      <<"?", "?", " ", "b", "\n", "A", " ", " ", "a", "\n">> }

StatusAnswers ==
    {Answer(FALSE, s, NoError) : s \in StatusOutputs}
    \cup {Answer(FALSE, <<>>, NotARepository), Answer(TRUE, <<>>, ExceptionText)}

RepositoryPaths == {"", "/repo", "/gone"}

\* os.path.exists(cwd)
PathExists(path) == path = "/repo"

\* the text typed in the commit-message box
Messages == {<<>>, <<" ", "\n", " ">>, <<"f", "i", "x">>}

Event(cmd, arg) == [cmd |-> cmd, arg |-> arg]

\* GitGUI.run_git_command: [g, none, stdout, stderr]; a subprocess is
\* started only for a selected path that exists
run_git_command(g, cmd, arg, answer) ==
    IF g.repo_path = "" \/ ~PathExists(g.repo_path)
    THEN [g |-> g, none |-> TRUE, stdout |-> answer.stdout,
          stderr |-> NoRepositoryText]
    ELSE [g |-> [g EXCEPT !.events = Append(@, Event(cmd, arg))],
          none |-> answer.none, stdout |-> answer.stdout,
          stderr |-> answer.stderr]

\* one row of the tree for one line of the status output
TreeRow(line) ==
    [status |-> parse_status_code(Take(line, 2)).label,
     file |-> Drop(line, 3),
     tag |-> parse_status_code(Take(line, 2)).tag]

RECURSIVE TreeRows(_)
TreeRows(ls) ==
    IF ls = <<>> THEN <<>>
    ELSE (IF Len(Head(ls)) >= 3 THEN <<TreeRow(Head(ls))>> ELSE <<>>)
         \o TreeRows(Tail(ls))

\* refresh_status after the status command has answered r
RefreshFrom(r) ==
    IF r.stderr # "" /\ HasNotARepository(r.stderr)
    THEN [r.g EXCEPT !.status_var = "Error: Not a git repository"]
    ELSE [r.g EXCEPT
            !.tree = IF ~r.none /\ r.stdout # <<>>
                     THEN TreeRows(split_lines(strip(r.stdout))) ELSE <<>>,
            !.status_var = "Ready"]

\* GitGUI.refresh_status
refresh_status(g, answer) ==
    IF g.repo_path = ""
    THEN [g EXCEPT !.events = Append(@, Event("refresh_status", <<>>))]
    ELSE RefreshFrom(run_git_command(
             [g EXCEPT !.events = Append(@, Event("refresh_status", <<>>)),
                       !.status_var = "Refreshing...",
                       !.tree = <<>>, !.selection = {}],
             "git status --porcelain", <<>>, answer))

\* GitGUI.get_selected_files: the paths of the selected rows, in tree order
RECURSIVE SelectedFrom(_, _)
SelectedFrom(g, k) ==
    IF k > Len(g.tree) THEN <<>>
    ELSE (IF k \in g.selection THEN <<g.tree[k].file>> ELSE <<>>)
         \o SelectedFrom(g, k + 1)

get_selected_files(g) == SelectedFrom(g, 1)

Dialog(g, kind, title) ==
    [g EXCEPT !.dialogs = Append(@, <<kind, title>>)]

\* the handler that starts: nothing done yet
Begin(g, handler) ==
    [g EXCEPT !.handler = handler, !.events = <<>>, !.dialogs = <<>>,
              !.raised = "None"]

\* the test a handler makes on stderr after a command
Failed(test, stderr) ==
    IF test = "any" THEN stderr # "" ELSE stderr # "" /\ HasFatal(stderr)

\* the loop `for file in files` of stage_selected, unstage_selected and
\* discard_changes: [g, failed]
RECURSIVE ForEachFile(_, _, _, _, _, _)
ForEachFile(g, cmd, test, files, answers, k) ==
    IF k > Len(files) THEN [g |-> g, failed |-> FALSE]
    ELSE LET r == run_git_command(g, cmd, files[k], answers[k])
         IN  IF Failed(test, r.stderr)
             THEN [g |-> Dialog(r.g, "showerror", "Error"), failed |-> TRUE]
             ELSE ForEachFile(r.g, cmd, test, files, answers, k + 1)

Refreshed(g, answer, status) ==
    [refresh_status(g, answer) EXCEPT !.status_var = status]

Counted(verb, files) == verb \o " " \o ToString(Len(files)) \o " file(s)"

\* GitGUI.stage_selected
stage_selected(g, answers, st) ==
    IF get_selected_files(g) = <<>>
    THEN Dialog(g, "showwarning", "No Selection")
    ELSE LET l == ForEachFile(g, "git add", "any", get_selected_files(g),
                              answers, 1)
         IN  IF l.failed THEN l.g
             ELSE Refreshed(l.g, st, Counted("Staged", get_selected_files(g)))

\* GitGUI.unstage_selected
unstage_selected(g, answers, st) ==
    IF get_selected_files(g) = <<>>
    THEN Dialog(g, "showwarning", "No Selection")
    ELSE LET l == ForEachFile(g, "git reset HEAD", "fatal",
                              get_selected_files(g), answers, 1)
         IN  IF l.failed THEN l.g
             ELSE Refreshed(l.g, st, Counted("Unstaged", get_selected_files(g)))

\* GitGUI.stage_all
stage_all(g, answer, st) ==
    LET r == run_git_command(g, "git add .", <<>>, answer)
    IN  IF Failed("fatal", r.stderr) THEN Dialog(r.g, "showerror", "Error")
        ELSE Refreshed(r.g, st, "Staged all changes")

\* GitGUI.discard_changes: yes is the answer to the confirmation
discard_changes(g, yes, answers, st) ==
    IF get_selected_files(g) = <<>>
    THEN Dialog(g, "showwarning", "No Selection")
    ELSE IF ~yes THEN Dialog(g, "askyesno", "Confirm")
    ELSE LET l == ForEachFile(Dialog(g, "askyesno", "Confirm"),
                              "git checkout --", "fatal",
                              get_selected_files(g), answers, 1)
         IN  IF l.failed THEN l.g
             ELSE Refreshed(l.g, st,
                            Counted("Discarded changes for",
                                    get_selected_files(g)))

\* file_tree.selection()[0]
FirstSelected(g) ==
    CHOOSE k \in g.selection : \A j \in g.selection : k <= j

\* GitGUI.toggle_stage; with no row selected the subscript raises
toggle_stage(g, answer, st) ==
    IF g.selection = {} THEN [g EXCEPT !.raised = "IndexError"]
    ELSE LET row == g.tree[FirstSelected(g)]
             r == run_git_command(g,
                      IF Has(row.status, "(Staged)") THEN "git reset HEAD"
                      ELSE "git add", row.file, answer)
         IN  IF Failed("fatal", r.stderr)
             THEN Dialog(r.g, "showerror", "Error")
             ELSE refresh_status(r.g, st)

\* commit_message.get(1.0, tk.END): the text and the newline Tk adds
MessageText(g) == Append(g.message, "\n")

\* commit_changes after the commit command has answered r; `in stdout`
\* raises when stdout is None
CommitFrom(r, st) ==
    IF r.none THEN [r.g EXCEPT !.raised = "TypeError"]
    ELSE IF r.stdout = NothingToCommit
    THEN Dialog(r.g, "showinfo", "Nothing to Commit")
    ELSE IF r.stderr # "" /\ HasFatal(r.stderr)
    THEN Dialog(r.g, "showerror", "Error")
    ELSE refresh_status(
             [Dialog(r.g, "showinfo", "Success") EXCEPT !.message = <<>>], st)

\* GitGUI.commit_changes
commit_changes(g, answer, st) ==
    IF strip(MessageText(g)) = <<>>
    THEN Dialog(g, "showwarning", "No Message")
    ELSE CommitFrom(run_git_command(g, "git commit -m",
                                    strip(MessageText(g)), answer), st)

\* commit_and_push after commit_changes has returned c, or raised
PushFrom(c, answer) ==
    IF c.raised # "None" THEN c
    ELSE LET r == run_git_command(
                      [c EXCEPT !.status_var = "Pushing to remote..."],
                      "git push", <<>>, answer)
         IN  [(IF r.stderr # "" /\ HasFatal(r.stderr)
               THEN Dialog(r.g, "showerror", "Error")
               ELSE Dialog(r.g, "showinfo", "Success"))
              EXCEPT !.status_var = "Ready"]

\* GitGUI.commit_and_push
commit_and_push(g, canswer, st, panswer) ==
    PushFrom(commit_changes(g, canswer, st), panswer)

\* GitGUI.browse_repo: folder is what the directory dialog returned
browse_repo(g, folder, st) ==
    IF folder # "" THEN refresh_status([g EXCEPT !.repo_path = folder], st)
    ELSE g

\* main(): a working directory that holds .git is selected and loaded
launch(g, isrepo, st) ==
    IF isrepo THEN refresh_status([g EXCEPT !.repo_path = "/repo"], st)
    ELSE g

\* GitGUI.__init__ has returned
InitGui ==
    /\ mode = "gui"
    /\ gui = [st |-> "launch", repo_path |-> "", message |-> <<>>,
              tree |-> <<>>, selection |-> {}, status_var |-> "Ready",
              handler |-> "__init__", events |-> <<>>, dialogs |-> <<>>,
              raised |-> "None"]
    /\ lines = <<>>
    /\ pb = Idle /\ stmt = Idle /\ vin = Idle /\ prog = Idle /\ acc = Idle
    /\ app = Idle

OtherUnchanged == UNCHANGED <<mode, lines, pb, stmt, vin, prog, acc, app>>

Looping == mode = "gui" /\ gui.st = "mainloop"

\* one answer for each selected file
AnswerLists(g) == [1..Len(get_selected_files(g)) -> CommandAnswers]

Launch ==
    /\ mode = "gui" /\ gui.st = "launch"
    /\ \E isrepo \in BOOLEAN, st \in StatusAnswers :
          gui' = [launch(Begin(gui, "main"), isrepo, st)
                  EXCEPT !.st = "mainloop"]
    /\ OtherUnchanged

\* the user types in the repository field
EditRepositoryPath ==
    /\ Looping
    /\ \E p \in RepositoryPaths : gui' = [gui EXCEPT !.repo_path = p]
    /\ OtherUnchanged

\* the user types in the commit-message box
EditMessage ==
    /\ Looping
    /\ \E m \in Messages : gui' = [gui EXCEPT !.message = m]
    /\ OtherUnchanged

\* the user selects rows of the tree
SelectRows ==
    /\ Looping
    /\ \E sel \in SUBSET (1..Len(gui.tree)) :
          gui' = [gui EXCEPT !.selection = sel]
    /\ OtherUnchanged

BrowseRepo ==
    /\ Looping
    /\ \E folder \in RepositoryPaths, st \in StatusAnswers :
          gui' = browse_repo(Begin(gui, "browse_repo"), folder, st)
    /\ OtherUnchanged

RefreshStatus ==
    /\ Looping
    /\ \E st \in StatusAnswers :
          gui' = refresh_status(Begin(gui, "refresh_status"), st)
    /\ OtherUnchanged

StageSelected ==
    /\ Looping
    /\ \E answers \in AnswerLists(gui), st \in StatusAnswers :
          gui' = stage_selected(Begin(gui, "stage_selected"), answers, st)
    /\ OtherUnchanged

UnstageSelected ==
    /\ Looping
    /\ \E answers \in AnswerLists(gui), st \in StatusAnswers :
          gui' = unstage_selected(Begin(gui, "unstage_selected"), answers, st)
    /\ OtherUnchanged

StageAll ==
    /\ Looping
    /\ \E answer \in CommandAnswers, st \in StatusAnswers :
          gui' = stage_all(Begin(gui, "stage_all"), answer, st)
    /\ OtherUnchanged

DiscardChanges ==
    /\ Looping
    /\ \E yes \in BOOLEAN, answers \in AnswerLists(gui), st \in StatusAnswers :
          gui' = discard_changes(Begin(gui, "discard_changes"), yes,
                                 answers, st)
    /\ OtherUnchanged

ToggleStage ==
    /\ Looping
    /\ \E answer \in CommandAnswers, st \in StatusAnswers :
          gui' = toggle_stage(Begin(gui, "toggle_stage"), answer, st)
    /\ OtherUnchanged

CommitChanges ==
    /\ Looping
    /\ \E answer \in CommitAnswers, st \in StatusAnswers :
          gui' = commit_changes(Begin(gui, "commit_changes"), answer, st)
    /\ OtherUnchanged

CommitAndPush ==
    /\ Looping
    /\ \E canswer \in CommitAnswers, st \in StatusAnswers,
          panswer \in CommandAnswers :
          gui' = commit_and_push(Begin(gui, "commit_and_push"), canswer, st,
                                 panswer)
    /\ OtherUnchanged

NextGui ==
    \/ Launch
    \/ EditRepositoryPath
    \/ EditMessage
    \/ SelectRows
    \/ BrowseRepo
    \/ RefreshStatus
    \/ StageSelected
    \/ UnstageSelected
    \/ StageAll
    \/ DiscardChanges
    \/ ToggleStage
    \/ CommitChanges
    \/ CommitAndPush

SpecGui == InitGui /\ [][NextGui]_vars

\* the subprocesses among the events of a handler
IsCommand(e) == e.cmd # "refresh_status"

Commands(events) == SelectSeq(events, IsCommand)

\* C19: when the commit-message box is empty or holds only whitespace,
\* neither Commit nor Commit & Push starts a version-control subprocess.
C19_NoCommandWithoutMessage ==
    [][(strip(MessageText(gui)) = <<>> /\ (CommitChanges \/ CommitAndPush))
           => Commands(gui'.events) = <<>>]_vars

MutatingHandlers ==
    {"stage_selected", "unstage_selected", "stage_all", "discard_changes",
     "toggle_stage", "commit_changes", "commit_and_push"}

MutatingCommands ==
    {"git add", "git reset HEAD", "git add .", "git checkout --",
     "git commit -m", "git push"}

\* the position of the last mutating command a handler started, or 0
RECURSIVE LastMutatingFrom(_, _)
LastMutatingFrom(events, k) ==
    IF k = 0 THEN 0
    ELSE IF events[k].cmd \in MutatingCommands THEN k
    ELSE LastMutatingFrom(events, k - 1)

LastMutating(events) == LastMutatingFrom(events, Len(events))

\* C20: a mutating handler (stage, unstage, stage-all, discard, toggle,
\* commit, commit-and-push) that started a command calls refresh_status
\* after the last command it started, before it returns.
C20_RefreshAfterLastCommand ==
    (mode = "gui" /\ gui.handler \in MutatingHandlers
       /\ LastMutating(gui.events) # 0) =>
        \E k \in (LastMutating(gui.events) + 1)..Len(gui.events) :
            gui.events[k].cmd = "refresh_status"

\* the lines of the status output as git wrote them: every line ends with a
\* newline, so the piece after the last newline is empty
RECURSIVE WrittenLinesFrom(_, _)
WrittenLinesFrom(s, cur) ==
    IF s = <<>> THEN <<>>
    ELSE IF Head(s) = "\n" THEN <<cur>> \o WrittenLinesFrom(Tail(s), <<>>)
    ELSE WrittenLinesFrom(Tail(s), Append(cur, Head(s)))

WrittenLines(stdout) == WrittenLinesFrom(stdout, <<>>)

\* the row the wire format prescribes for a line: the first two characters
\* are the code, the path follows the separator
WireRow(line) ==
    [status |-> TableResult(Take(line, 2)).label,
     file |-> Drop(line, 3),
     tag |-> TableResult(Take(line, 2)).tag]

RECURSIVE WireRows(_)
WireRows(ls) ==
    IF ls = <<>> THEN <<>> ELSE <<WireRow(Head(ls))>> \o WireRows(Tail(ls))

\* C29: refresh_status turns every line of the status output, the first and
\* the last included, into a row whose code is the line's own first two
\* characters (leading blanks kept), whose path is everything after the
\* separator, and whose label is that of the unmodified code.
C29_RowsFromUnmodifiedLines ==
    [][\A st \in StatusAnswers :
          (/\ gui'.handler = "refresh_status"
           /\ PathExists(gui.repo_path)
           /\ ~st.none /\ ~HasNotARepository(st.stderr)
           /\ gui' = refresh_status(Begin(gui, "refresh_status"), st))
          => gui'.tree = WireRows(WrittenLines(st.stdout))]_vars

\* the answer run_git_command gives when subprocess.run raised
ExceptionAnswer == Answer(TRUE, "", ExceptionText)

StatusExceptionAnswer == Answer(TRUE, <<>>, ExceptionText)

\* the handler reaches its first call of run_git_command once a row is
\* selected (stage, unstage, discard, toggle) or a message is typed (commit)
ReachesCommand(g, h) ==
    CASE h \in {"stage_selected", "unstage_selected", "discard_changes",
                "toggle_stage"} -> g.selection # {}
      [] h \in {"commit_changes", "commit_and_push"} ->
             strip(MessageText(g)) # <<>>
      [] OTHER -> TRUE

EveryFileFails(g) ==
    [k \in 1..Len(get_selected_files(g)) |-> ExceptionAnswer]

\* what handler h leaves when none of its commands could be run: no
\* directory to run in, or subprocess.run raised each time
FailedRun(g, h) ==
    CASE h = "stage_selected" ->
             stage_selected(Begin(g, h), EveryFileFails(g),
                            StatusExceptionAnswer)
      [] h = "unstage_selected" ->
             unstage_selected(Begin(g, h), EveryFileFails(g),
                              StatusExceptionAnswer)
      [] h = "stage_all" ->
             stage_all(Begin(g, h), ExceptionAnswer, StatusExceptionAnswer)
      [] h = "discard_changes" ->
             discard_changes(Begin(g, h), TRUE, EveryFileFails(g),
                             StatusExceptionAnswer)
      [] h = "toggle_stage" ->
             toggle_stage(Begin(g, h), ExceptionAnswer, StatusExceptionAnswer)
      [] h = "commit_changes" ->
             commit_changes(Begin(g, h), ExceptionAnswer,
                            StatusExceptionAnswer)
      [] h = "commit_and_push" ->
             commit_and_push(Begin(g, h), ExceptionAnswer,
                             StatusExceptionAnswer, ExceptionAnswer)

\* the handler returned, showed an error dialog and no success dialog
FailureReported(g) ==
    /\ g.raised = "None"
    /\ \E k \in 1..Len(g.dialogs) : g.dialogs[k][1] = "showerror"
    /\ \A k \in 1..Len(g.dialogs) : g.dialogs[k] # <<"showinfo", "Success">>

\* C30: when run_git_command cannot run a command (no repository selected,
\* a path that does not exist, or an exception of the subprocess call),
\* every action handler returns without an uncaught exception and reports
\* the failure, not a success.
C30_FailureReported ==
    [][\A h \in MutatingHandlers :
          (/\ gui'.handler = h
           /\ ReachesCommand(gui, h)
           /\ gui' = FailedRun(gui, h))
          => FailureReported(gui')]_vars

-----------------------------------------------------------------------------
(* parse_method_body on bodies that run into the next section of a          *)
(* template: consistently indented body lines, none at all included, then a *)
(* section header at indentation 4 and perhaps the first line of that       *)
(* section.                                                                 *)

\* the section names TemplateParser._parse_section_content recognizes, for
\* the template keywords a declaration may use
TemplateSections ==
    UNION {get_static_vars_patterns(template_synonyms[k])
               \cup get_static_methods_patterns(template_synonyms[k]) :
           k \in 1..Len(template_synonyms)}
        \cup {<<"instance", "vars">>, <<"constructor">>,
              <<"instance", "methods">>}
        \cup abstract_methods_synonyms
        \cup get_getter_setter_patterns

SectionHeaderLine(name) == [ind |-> IndentStep, w |-> Append(name, ":")]

SectionContent == [ind |-> BaseIndent, w |-> <<"x", "=", "1">>]

\* the bodies with at most n lines before the section header
SectionBodies(n) ==
    {p \o <<SectionHeaderLine(name)>> \o t :
        p \in BodyPrefixes(n), name \in TemplateSections,
        t \in {<<>>, <<SectionContent>>}}

InitSection ==
    /\ mode = "body"
    /\ lines \in SectionBodies(MaxBodyLines - 2)
    /\ pb = NewFrame(0)
    /\ stmt = Idle /\ vin = Idle /\ prog = Idle /\ acc = Idle /\ app = Idle
    /\ gui = Idle

SpecSection == InitSection /\ [][ParseBodyStep]_vars

IsTemplateSectionLine(l) ==
    /\ l.ind = IndentStep
    /\ l.w # <<>> /\ Last(l.w) = ":"
    /\ Take(l.w, Len(l.w) - 1) \in TemplateSections

\* C21: parse_method_body stops at a line at indentation 4 that ends in `:`
\* and names a section the Template Parser recognizes, without consuming it
\* (the cursor never passes the line and the call returns), also when no
\* body line came before it.
C21_StopsAtSectionHeader ==
    mode = "body" =>
        /\ \A k \in 1..Len(lines) : IsTemplateSectionLine(lines[k]) => pb.i < k
        /\ pb.st # "run" => pb.st = "done"

-----------------------------------------------------------------------------
(* parse_method_body on bodies in which one block header carries a trailing *)
(* comment.                                                                 *)

CommentMarkers == {"//", "#"}

WithComment(l, marker) == [l EXCEPT !.w = l.w \o <<marker, "note">>]

\* the bodies of at most n lines with a comment after one of the headers
CommentedBodies(n) ==
    UNION {{[p EXCEPT ![k] = WithComment(p[k], marker)] :
               k \in {j \in 1..Len(p) : IsHeaderLine(p[j])},
               marker \in CommentMarkers} :
           p \in BodyPrefixes(n)}

InitComment ==
    /\ mode = "body"
    /\ lines \in CommentedBodies(MaxBodyLines - 1)
    /\ pb = NewFrame(0)
    /\ stmt = Idle /\ vin = Idle /\ prog = Idle /\ acc = Idle /\ app = Idle
    /\ gui = Idle

SpecComment == InitComment /\ [][ParseBodyStep]_vars

\* the position of the comment marker in a line, or 0
MarkerAt(l) ==
    IF Has(l.w, "//") THEN FirstAt(l.w, "//", 1, Len(l.w))
    ELSE FirstAt(l.w, "#", 1, Len(l.w))

\* a block header followed by a comment
IsCommentedHeader(l) ==
    /\ MarkerAt(l) > 1
    /\ IsHeaderLine([l EXCEPT !.w = Take(l.w, MarkerAt(l) - 1)])

Uncommented(l) ==
    IF IsCommentedHeader(l) THEN [l EXCEPT !.w = Take(l.w, MarkerAt(l) - 1)]
    ELSE l

WithoutComments(L) == [k \in 1..Len(L) |-> Uncommented(L[k])]

\* parse_method_body run from frame f to its return
RECURSIVE ParsedFrom(_, _)
ParsedFrom(L, f) ==
    IF f.st # "run" THEN f ELSE ParsedFrom(L, BodyStep(L, f))

\* C22: a block header with a trailing `//` or `#` comment opens a block as
\* the header without the comment does: once the line is converted its
\* indentation is on top of the indentation stack, and the returned body
\* holds as many closing braces as the body of the same lines without the
\* comment.
C22_CommentedHeaderOpensBlock ==
    /\ (mode = "body" /\ pb.st = "run" /\ pb.i >= 1
          /\ IsCommentedHeader(lines[pb.i])) =>
           /\ pb.indent_stack # <<>>
           /\ Last(pb.indent_stack) = lines[pb.i].ind
           /\ Len(pb.brace_stack) = Len(pb.indent_stack)
    /\ (mode = "body" /\ pb.st = "done"
          /\ \E k \in 1..Len(lines) : IsCommentedHeader(lines[k])) =>
           Braces(pb.body, "}")
               = Braces(ParsedFrom(WithoutComments(lines), NewFrame(0)).body, "}")

-----------------------------------------------------------------------------
(* parse_method_body on whole bodies: consistently indented lines, the last *)
(* of which may be a statement followed by the opening of a block comment.  *)

CodeThenComment == [ind |-> BaseIndent, w |-> <<"x", "=", "1", TQ, "note">>]

\* the bodies of at most n lines
StackBodies(n) ==
    BodyPrefixes(n) \cup {Append(p, CodeThenComment) : p \in BodyPrefixes(n - 1)}

InitStack ==
    /\ mode = "body"
    /\ lines \in StackBodies(MaxBodyLines)
    /\ pb = NewFrame(0)
    /\ stmt = Idle /\ vin = Idle /\ prog = Idle /\ acc = Idle /\ app = Idle
    /\ gui = Idle

SpecStack == InitStack /\ [][ParseBodyStep]_vars

StrictlyIncreasing(s) == \A k \in 1..(Len(s) - 1) : s[k] < s[k + 1]

\* the line has been converted to a statement, as a whole or up to a comment
IsConverted(l) ==
    /\ l.w # <<>> /\ l.w[1] \notin {"//", "#", TQ}

\* the lines `}` among the lines a step appended to the body
ClosingLines(before, after) ==
    Cardinality({k \in (Len(before) + 1)..Len(after) : after[k] = <<"}">>})

StackDiscipline ==
    mode = "body" =>
        /\ StrictlyIncreasing(pb.indent_stack)
        /\ Len(pb.brace_stack) = Len(pb.indent_stack)
        /\ (pb.i >= 1 /\ pb.i <= Len(lines) /\ IsConverted(lines[pb.i])) =>
               \A k \in 1..Len(pb.indent_stack) :
                   pb.indent_stack[k] <= lines[pb.i].ind
        /\ pb.st = "done" => pb.brace_stack = <<>> /\ pb.indent_stack = <<>>

\* a step pops from the top, emits one `}` for each popped entry and pushes
\* at most one entry, the indentation of the line it converted
DeepestFirst ==
    (mode = "body" /\ pb'.st = "run") =>
        LET popped == ClosingLines(pb.body, pb'.body)
            rest == Take(pb.indent_stack, Len(pb.indent_stack) - popped)
        IN  /\ popped <= Len(pb.indent_stack)
            /\ pb'.indent_stack \in {rest, Append(rest, lines[pb'.i].ind)}

\* C23: after any prefix of a body's lines the indentation stack is strictly
\* increasing, brace_stack and indent_stack have equal length, no entry
\* exceeds the indentation of the last converted line, closing braces are
\* emitted from the top of the stack down, and at return both stacks are
\* empty.
C23_StackDiscipline == [](StackDiscipline) /\ [][DeepestFirst]_vars

\* the header line of the method or constructor whose body is being
\* collected
BodyHeader == lines[prog.i + 1]

\* C24: the body collected for a method or constructor header holds no
\* converted line whose indentation is less than or equal to the header's:
\* while parse_method_body runs for the header, every code line it has
\* consumed stands deeper than the header.
C24_BodyDeeperThanHeader ==
    (mode = "prog" /\ prog.pc = "body" /\ BodyHeader.w # <<"main">>) =>
        \A k \in (prog.i + 2)..pb.i :
            IsConverted(lines[k]) => lines[k].ind > BodyHeader.ind

\* the template is in the Java text as a class or interface of its own, or
\* as the program's class when it bears the program's name
TemplateEmitted(java, template) ==
    \/ \E j \in 1..Len(java) : java[j] = build_class_declaration(template)
    \/ /\ template.name = prog.program_name
       /\ \E j \in 1..Len(java) : java[j] = ProgramClassLine

\* the first line of the method's Java text is in the Java text
MethodEmitted(java, method) ==
    \E j \in 1..Len(java) : java[j] = Head(generate_method(method, ""))

\* C25: generate loses no declaration: every template of the parsed program
\* is in the output as its own class or interface or as the program's
\* class, and every standalone method is in the output.
C25_NoDeclarationLost ==
    (mode = "prog" /\ prog.pc = "done") =>
        /\ \A t \in 1..Len(prog.templates) :
              TemplateEmitted(prog.java, prog.templates[t])
        /\ \A m \in 1..Len(prog.standalone_methods) :
              MethodEmitted(prog.java, prog.standalone_methods[m])

\* every line of the text is a line of the Java output
AllEmitted(java, text) ==
    \A k \in 1..Len(text) : \E j \in 1..Len(java) : java[j] = text[k]

\* C26: when the single template is merged into the program class, the
\* class header is the template-class builder's declaration (after `public`)
\* with its abstract qualifier and its extends and implements clauses, and
\* the template's abstract methods are emitted as that builder emits them.
C26_MergedClassKeepsInheritance ==
    (mode = "prog" /\ prog.pc = "done"
       /\ should_merge_into_single_class(prog)) =>
        /\ \E j \in 1..Len(prog.java) :
              prog.java[j] = <<"public">>
                                 \o build_class_declaration(prog.templates[1])
        /\ AllEmitted(prog.java,
                      abstract_methods_block(prog.templates[1].abstract_methods))


-----------------------------------------------------------------------------
(* C27: the cursors of parse_program, parse_template and parse_method_body. *)

\* parse_program has returned or an error has left it
Terminated == prog.pc \in {"done", "raised"}

\* the index of the header line of the template being parsed lies before i
PastTemplateHeader(L, p) ==
    \E h \in 0..(p.i - 1) :
        /\ is_template_line(L[h + 1].w)
        /\ L[h + 1].w[2] = p.template.name

\* no cursor is beyond the number of lines, the template loop runs after its
\* header line, and a body is read from the line after its header on
CursorsInRange ==
    mode = "prog" =>
        /\ prog.i <= Len(lines)
        /\ pb.i <= Len(lines)
        /\ prog.pc = "template" => PastTemplateHeader(lines, prog)
        /\ prog.pc = "body" => (prog.i < pb.i /\ prog.i < Len(lines))

\* a step that stays in a loop moves its cursor forward, and a call of
\* parse_method_body returns an index after the header line it was called for
CursorAdvances ==
    /\ (prog.pc = "program" /\ prog'.pc \in {"program", "template"})
           => prog'.i > prog.i
    /\ (prog.pc = "template" /\ prog'.pc = "template") => prog'.i > prog.i
    /\ (prog.pc = "body" /\ pb.st = "run" /\ pb'.st = "run") => pb'.i > pb.i
    /\ (prog.pc = "body" /\ prog'.pc \in {"program", "template"})
           => (prog'.i > prog.i /\ prog'.i <= Len(lines))
    /\ (prog.pc = "template" /\ prog'.pc = "program")
           => (prog'.i = prog.i /\ PastTemplateHeader(lines, prog))

\* parse_program has ended, or it is at a position whose step is defined
CanGoOn ==
    \/ Terminated
    \/ prog.pc \in {"analyze", "program", "template"}
    \/ prog.pc = "body" /\ pb.st \in {"run", "done", "raised"}

\* the cursor of the loop that is running
Cursor == IF prog.pc = "body" THEN pb.i ELSE prog.i

\* where the run stands at one cursor position: a body being read, a body
\* that has returned, the loop of parse_template, the loop of parse_program
Rank ==
    IF prog.pc = "body" THEN (IF pb.st = "run" THEN 4 ELSE 3)
    ELSE IF prog.pc = "template" THEN 2
    ELSE IF prog.pc = "program" THEN 1
    ELSE 0

\* what is left to do: the lines after the cursor, then the positions at it
Variant ==
    IF prog.pc = "analyze" THEN 5 * (Len(lines) + 1)
    ELSE 5 * (Len(lines) - Cursor) + Rank

\* C27: parse_program terminates: every step lowers a variant that is never
\* negative, every step that stays in the top-level loop, in the loop of
\* parse_template or in the loop of parse_method_body strictly increases the
\* cursor of that loop, every sub-parser returns an index greater than that
\* of its header line, and no index exceeds the number of lines.
C27_CursorsAdvance ==
    [][mode = "prog" =>
          /\ CursorsInRange /\ CursorsInRange'
          /\ CursorAdvances
          /\ CanGoOn /\ CanGoOn'
          /\ Variant' < Variant /\ Variant' >= 0]_vars

\* a method body inside a template has been read to the last line and
\* parse_template goes on after it
C27_BodyReturnedAtEnd ==
    /\ mode = "prog" /\ prog.pc = "template"
    /\ prog.i = Len(lines)
    /\ pb.st = "done" /\ pb.i = Len(lines) /\ pb.body # <<>>
    /\ prog.template.instance_methods # <<>>


-----------------------------------------------------------------------------
(* C28: the containers of the extended vocabulary in a declaration.         *)

\* the generic type that bears the name of the container token
IdenticallyNamed ==
    [linkedlist |-> {"LinkedList"}, treemap |-> {"TreeMap"},
     treeset |-> {"TreeSet"}, stack |-> {"Stack"}, queue |-> {"Queue"},
     deque |-> {"Deque", "ArrayDeque"}, arraydeque |-> {"Deque", "ArrayDeque"},
     vector |-> {"Vector"}]

\* the lexemes of the declared type: those before the variable's name
DeclaredType(java, name) == Take(java, FirstAt(java, name, 1, Len(java)) - 1)

\* the lexemes of the type the default constructor names: `new <type> ( )`
ConstructedType(java) ==
    SubSeq(java, FirstAt(java, "new", 1, Len(java)) + 1, Len(java) - 3)

\* the declaration converts to `<T><...> xs = new <T><...>();` with its own type
SameTypeBothSides(java, name) ==
    /\ Has(java, "new")
    /\ DeclaredType(java, name) = ConstructedType(java)
    /\ SubSeq(java, Len(java) - 2, Len(java)) = <<"(", ")", ";">>

\* C28: a declaration `xs as <container>/<element>` with a container token of
\* the extended vocabulary converts to a declaration whose generic type bears
\* the name of the token (LinkedList, TreeMap, TreeSet, Stack, Queue, Deque or
\* ArrayDeque, Vector), and the default constructor names the declared type.
C28_ExtendedContainers ==
    (mode = "stmt" /\ stmt.st = "out" /\ stmt.s \in ContainerDeclarations) =>
        /\ stmt.res.ok
        /\ stmt.res.val[1] \in IdenticallyNamed[stmt.s[3]]
        /\ SameTypeBothSides(stmt.res.val, stmt.s[1])

=============================================================================
